---------------------------- MODULE Spec2Model ----------------------------
(***************************************************************************)
(* Field-service work orders: the identity matcher (strictCompare), the    *)
(* verification gate (performAICheck), the order state machine of          *)
(* ResultsView and the optimistic-update / realtime-merge layer of App.    *)
(*                                                                         *)
(* Strings are sequences of one-character strings, so that normalisation   *)
(* and the index walk of strictCompare are computed as the code does.      *)
(***************************************************************************)
EXTENDS Integers, Sequences, FiniteSets, TLC

(***************************************************************************)
(* Bounds of the model.                                                    *)
(***************************************************************************)
MaxLen == 3

\* The raw characters the compared strings are drawn from: a digit and a
\* letter of one ambiguity group ("0", and "o" which upper-cases to "O"), a
\* character the table does not know ("7"), and a separator that
\* normalisation strips.
InputChars == {"0", "o", "7", "-"}

(***************************************************************************)
(* Identity matcher: normalizeString, ALLOWED_SWAPS, strictCompare.        *)
(***************************************************************************)
LowerCase ==
  <<"a","b","c","d","e","f","g","h","i","j","k","l","m",
    "n","o","p","q","r","s","t","u","v","w","x","y","z">>

UpperCase ==
  <<"A","B","C","D","E","F","G","H","I","J","K","L","M",
    "N","O","P","Q","R","S","T","U","V","W","X","Y","Z">>

Digits == {"0","1","2","3","4","5","6","7","8","9"}

Range(s) == {s[i] : i \in DOMAIN s}

\* String.prototype.toUpperCase, one character.
toUpperCase(c) ==
  IF \E i \in DOMAIN LowerCase : LowerCase[i] = c
  THEN UpperCase[CHOOSE i \in DOMAIN LowerCase : LowerCase[i] = c]
  ELSE c

\* The character class [A-Z0-9] of the replace() in normalizeString.
IsAlnum(c) == c \in Digits \cup Range(UpperCase)

\* str.toUpperCase().replace(/[^A-Z0-9]/g, '')
RECURSIVE normalizeString(_)
normalizeString(str) ==
  IF str = <<>> THEN <<>>
  ELSE LET c == toUpperCase(Head(str))
       IN  (IF IsAlnum(c) THEN <<c>> ELSE <<>>) \o normalizeString(Tail(str))

\* OCR ambiguity whitelist: for each key, the characters it may be read as.
\* (The first table is the second without '0' in the row of 'O'.)
ALLOWED_SWAPS_OneWay ==
  ("0" :> <<"O", "Q", "D">>) @@
  ("O" :> <<"Q", "D">>) @@
  ("Q" :> <<"0", "O">>) @@
  ("D" :> <<"0", "O">>) @@
  ("8" :> <<"B">>) @@
  ("B" :> <<"8">>) @@
  ("Z" :> <<"2">>) @@
  ("2" :> <<"Z">>) @@
  ("1" :> <<"I", "L">>) @@
  ("I" :> <<"1", "L">>) @@
  ("L" :> <<"1", "I">>) @@
  ("5" :> <<"S">>) @@
  ("S" :> <<"5">>)

ALLOWED_SWAPS ==
  ("0" :> <<"O", "Q", "D">>) @@
  ("O" :> <<"0", "Q", "D">>) @@
  ("Q" :> <<"0", "O">>) @@
  ("D" :> <<"0", "O">>) @@
  ("8" :> <<"B">>) @@
  ("B" :> <<"8">>) @@
  ("Z" :> <<"2">>) @@
  ("2" :> <<"Z">>) @@
  ("1" :> <<"I", "L">>) @@
  ("I" :> <<"1", "L">>) @@
  ("L" :> <<"1", "I">>) @@
  ("5" :> <<"S">>) @@
  ("S" :> <<"5">>)

\* const allowed = ALLOWED_SWAPS[charT]; allowed && allowed.includes(charC)
SwapAllowed(charT, charC) ==
  /\ charT \in DOMAIN ALLOWED_SWAPS
  /\ charC \in Range(ALLOWED_SWAPS[charT])

\* Math.abs(normTarget.length - normCand.length)
AbsDiff(a, b) == IF a >= b THEN a - b ELSE b - a

Min(a, b) == IF a <= b THEN a ELSE b

\* The tolerated length difference of the length check.
MaxLenDiff == 1

\* diffCount is kept in halves: a listed swap adds 0.5 (one half) and the
\* budget 1.0 is two halves.  0.5 and its small multiples are exact in IEEE
\* doubles, so the comparison diffCount > 1.0 is the integer comparison.
SwapCostHalves == 1

BudgetHalves == 2

\* The reasons strictCompare returns, by kind, with the data the message
\* carries: "length" (位数不符, both lengths), "hard" (关键字符不一致, the
\* 1-based position and the two characters), "toomany" (易混淆字符过多),
\* "exact" (完全精确匹配), "fuzzy" (通过 (模糊匹配 ...)), the last two with
\* the list of swapped positions.
Reason(kind, pos, charT, charC, details) ==
  [kind |-> kind, pos |-> pos, charT |-> charT, charC |-> charC,
   details |-> details]

\* The for loop of strictCompare from index i (1-based), with its early
\* return on a character pair that is not whitelisted.
RECURSIVE WalkLoose(_, _, _, _, _, _)
WalkLoose(normTarget, normCand, i, length, diffCount, diffDetails) ==
  IF i > length
  THEN IF diffCount > BudgetHalves
       THEN [match |-> FALSE, score |-> 0,
             reason |-> Reason("toomany", 0, "", "", diffDetails)]
       ELSE [match |-> TRUE, score |-> 1,
             reason |-> Reason(IF diffCount = 0 THEN "exact" ELSE "fuzzy",
                               0, "", "", diffDetails)]
  ELSE LET charT == normTarget[i]
           charC == normCand[i]
       IN  IF charT # charC
           THEN WalkLoose(normTarget, normCand, i + 1, length,
                          diffCount + SwapCostHalves,
                          Append(diffDetails, <<i, charC, charT>>))
           ELSE WalkLoose(normTarget, normCand, i + 1, length, diffCount,
                          diffDetails)

RECURSIVE WalkNoBudget(_, _, _, _, _, _)
WalkNoBudget(normTarget, normCand, i, length, diffCount, diffDetails) ==
  IF i > length
  THEN [match |-> TRUE, score |-> 1,
        reason |-> Reason(IF diffCount = 0 THEN "exact" ELSE "fuzzy",
                          0, "", "", diffDetails)]
  ELSE LET charT == normTarget[i]
           charC == normCand[i]
       IN  IF charT # charC
           THEN IF SwapAllowed(charT, charC)
                THEN WalkNoBudget(normTarget, normCand, i + 1, length,
                                  diffCount + SwapCostHalves,
                                  Append(diffDetails, <<i, charC, charT>>))
                ELSE [match |-> FALSE, score |-> 0,
                      reason |-> Reason("hard", i, charT, charC, <<>>)]
           ELSE WalkNoBudget(normTarget, normCand, i + 1, length, diffCount,
                             diffDetails)

RECURSIVE Walk(_, _, _, _, _, _)
Walk(normTarget, normCand, i, length, diffCount, diffDetails) ==
  IF i > length
  THEN IF diffCount > BudgetHalves
       THEN [match |-> FALSE, score |-> 0,
             reason |-> Reason("toomany", 0, "", "", diffDetails)]
       ELSE [match |-> TRUE, score |-> 1,
             reason |-> Reason(IF diffCount = 0 THEN "exact" ELSE "fuzzy",
                               0, "", "", diffDetails)]
  ELSE LET charT == normTarget[i]
           charC == normCand[i]
       IN  IF charT # charC
           THEN IF SwapAllowed(charT, charC)
                THEN Walk(normTarget, normCand, i + 1, length,
                          diffCount + SwapCostHalves,
                          Append(diffDetails, <<i, charC, charT>>))
                ELSE [match |-> FALSE, score |-> 0,
                      reason |-> Reason("hard", i, charT, charC, <<>>)]
           ELSE Walk(normTarget, normCand, i + 1, length, diffCount,
                     diffDetails)

\* The length check of strictCompare: TRUE when the comparison is refused.
LengthMismatchWide(tlen, clen) == AbsDiff(tlen, clen) > MaxLenDiff + 1

LengthMismatch(tlen, clen) == AbsDiff(tlen, clen) > MaxLenDiff

strictCompareTargetRaw(target, candidate) ==
  LET normTarget == target
      normCand   == normalizeString(candidate)
  IN  IF LengthMismatch(Len(normTarget), Len(normCand))
      THEN [match |-> FALSE, score |-> 0,
            reason |-> Reason("length", 0, "", "",
                              <<Len(normTarget), Len(normCand)>>)]
      ELSE Walk(normTarget, normCand, 1,
                Min(Len(normTarget), Len(normCand)), 0, <<>>)

strictCompare(target, candidate) ==
  LET normTarget == normalizeString(target)
      normCand   == normalizeString(candidate)
  IN  IF LengthMismatch(Len(normTarget), Len(normCand))
      THEN [match |-> FALSE, score |-> 0,
            reason |-> Reason("length", 0, "", "",
                              <<Len(normTarget), Len(normCand)>>)]
      ELSE Walk(normTarget, normCand, 1,
                Min(Len(normTarget), Len(normCand)), 0, <<>>)


(***************************************************************************)
(* Verification orchestrator: the candidate loop of performAICheck.  The   *)
(* OCR response is taken as the list of candidate strings parsed from it.  *)
(***************************************************************************)
\* detected: "未检测到文字" (no text found in the picture).
NothingDetected == <<"NOTHING_DETECTED">>

\* The for..of loop from candidate index i with the running bestMatch; the
\* break on the first match is the early return.
RECURSIVE BestMatchFrom(_, _, _, _)
BestMatchFrom(targetSerial, candidates, i, bestMatch) ==
  IF i > Len(candidates) THEN bestMatch
  ELSE LET cand   == candidates[i]
           result == strictCompare(targetSerial, cand)
       IN  IF result.match
           THEN [match |-> TRUE, reason |-> result.reason,
                 score |-> result.score, detected |-> cand]
           ELSE IF result.reason.kind # "length" /\ bestMatch.score = -1
                THEN BestMatchFrom(targetSerial, candidates, i + 1,
                       [match |-> FALSE, reason |-> result.reason,
                        score |-> result.score, detected |-> cand])
                ELSE BestMatchFrom(targetSerial, candidates, i + 1, bestMatch)

\* The message of a verification: the reason, behind the prefix "核对失败: "
\* when the check failed.
Message(failed, reason) == [failed |-> failed, reason |-> reason]

\* performAICheck once the vision service has answered with `candidates`.
performAICheck(candidates, targetSerial) ==
  IF Len(candidates) = 0
  THEN [match |-> FALSE, detected |-> NothingDetected,
        message |-> Message(FALSE, Reason("nothing", 0, "", "", <<>>))]
  ELSE LET bestMatch ==
             BestMatchFrom(targetSerial, candidates, 1,
               [match |-> FALSE, reason |-> Reason("none", 0, "", "", <<>>),
                score |-> -1, detected |-> <<>>])
       IN  [match    |-> bestMatch.match,
            detected |-> IF bestMatch.detected # <<>>
                         THEN bestMatch.detected ELSE candidates[1],
            message  |-> Message(~bestMatch.match, bestMatch.reason)]

(***************************************************************************)
(* Orders, users and the values of the order fields.                       *)
(***************************************************************************)
\* The clock runs from 1 to MaxTime.
MaxTime == 2

\* The mutations a run holds: those issued by this page and by the remote
\* administrator, and the submission in preparation (a refused one gives
\* its place back).
MaxOps == 2

\* Session identities (LoginScreen): the administrator, and a worker with
\* the name and the team chosen at login.
NoUser == [role |-> "NONE", name |-> "", team |-> ""]

\* LoginScreen names every administrator session "管理员" (here "Admin").
AdminUser == [role |-> "ADMIN", name |-> "Admin", team |-> ""]

WorkerUser == [role |-> "WORKER", name |-> "Zhang", team |-> "T1"]

Users == {AdminUser, WorkerUser}

\* Assignee names an administrator can type when reassigning.
Names == {"Zhang", "Li"}

\* Absent optional fields (undefined / null): 0 for the three times, "" for
\* the strings, <<>> for remarkImages and NoPhoto for completionPhoto.
NoDeadline == 0

NoPhoto == [reads |-> <<>>, q |-> "none"]

\* A patch value of `undefined`: the local spread stores it (the field
\* becomes absent), the JSON body of the remote update leaves it out.
UndefPhoto == [reads |-> <<>>, q |-> "undefined"]

UndefAudio == "undefined"

\* The target serial of the imported orders, and the photos a worker can
\* take, each standing for what the vision service reads from it: nothing,
\* the serial with 0 read as O, and another device's serial.
Serial == <<"0", "8", "1", "2", "3", "4", "5">>

RawPhotos ==
  { [reads |-> << <<"O", "8", "1", "2", "3", "4", "5">> >>, q |-> "raw"],
    [reads |-> << <<"7", "8", "1", "2", "3", "4", "5">> >>, q |-> "raw"] }

\* compressBase64Image: the picture re-encoded as JPEG at quality 0.6.
compressBase64Image(photo) == [photo EXCEPT !.q = "jpeg"]

Attachment == <<"raw", "att">>

\* remarkImages.map(img => compressBase64Image(img)); an image is the pair
\* of its encoding and its content.
compressAll(images) == [i \in DOMAIN images |-> <<"jpeg", images[i][2]>>]

\* The history lines, as the event they record: who, what, and the variable
\* part of the text (the new assignee, the verification note).
HistoryEntry(actor, action, note) ==
  [actor |-> actor, action |-> action, note |-> note]

\* The object handleMappingConfirm builds for one row: the five mapped
\* values, the status, the import line of the history and the deadline of
\* the import; every other field is absent.
NewOrderNoHistory(id, taskName, businessNo, team, userName, serialCode, deadline) ==
  [id |-> id, taskName |-> taskName, businessNo |-> businessNo,
   userName |-> userName, team |-> team, serialCode |-> serialCode,
   status |-> "DISPATCHED", receivedAt |-> 0, completedAt |-> 0,
   deadline |-> deadline, returnReason |-> "", completionRemark |-> "",
   remarkImages |-> <<>>, completionPhoto |-> NoPhoto,
   completionAudio |-> "", auditStatus |-> "",
   history |-> <<>>]

NewOrder(id, taskName, businessNo, team, userName, serialCode, deadline) ==
  [id |-> id, taskName |-> taskName, businessNo |-> businessNo,
   userName |-> userName, team |-> team, serialCode |-> serialCode,
   status |-> "DISPATCHED", receivedAt |-> 0, completedAt |-> 0,
   deadline |-> deadline, returnReason |-> "", completionRemark |-> "",
   remarkImages |-> <<>>, completionPhoto |-> NoPhoto,
   completionAudio |-> "", auditStatus |-> "",
   history |-> << HistoryEntry("Admin", "import", "") >>]

\* An imported order of the worker's team, for the device with the serial
\* above.
ImportedOrder(id, userName, deadline) ==
  NewOrder(id, <<"A">>, <<"B">>, "T1", userName, Serial, deadline)

NoOrder == [id |-> 0]

StatusRank(status) ==
  CASE status = "PENDING"    -> 0
    [] status = "DISPATCHED" -> 1
    [] status = "RECEIVED"   -> 2
    [] status = "COMPLETED"  -> 3

VARIABLES
  target, candidate, cmpResult,
  now, ops,
  currentUser, orders, isOnline, loading,
  completionTarget, sub, alert,
  db, channel, writes,
  batch,
  rawData, storage, camera

cmpVars == <<target, candidate, cmpResult>>

vars == <<target, candidate, cmpResult, now, ops, currentUser, orders,
          isOnline, loading, completionTarget, sub, alert, db, channel,
          writes, batch, rawData, storage, camera>>

\* The sheet awaiting its mapping and the browser's localStorage.
pageVars == <<rawData, storage>>

(***************************************************************************)
(* Helpers of the order operations.                                        *)
(***************************************************************************)
\* orders.find(o => o.id === id)
Find(list, id) ==
  IF \E i \in DOMAIN list : list[i].id = id
  THEN list[CHOOSE i \in DOMAIN list : list[i].id = id]
  ELSE NoOrder

\* order.deadline && new Date() > new Date(order.deadline)
Expired(deadline) == deadline # NoDeadline /\ now > deadline

\* The WORKER filter of filteredOrders: the name must match, and the team
\* when the session has one; an ADMIN sees every order.
VisibleTo(user, o) ==
  user.role = "WORKER" =>
    /\ o.userName = user.name
    /\ (user.team # "" => o.team = user.team)

IsUndefined(f, v) ==
  \/ f = "completionPhoto" /\ v = UndefPhoto
  \/ f = "completionAudio" /\ v = UndefAudio

\* { ...o, ...updates }: every key of the patch is stored, an undefined
\* value leaving the field absent.
LocalApply(o, updates) ==
  [f \in DOMAIN o |->
     IF f \in DOMAIN updates
     THEN (CASE f = "completionPhoto" /\ updates[f] = UndefPhoto -> NoPhoto
             [] f = "completionAudio" /\ updates[f] = UndefAudio -> ""
             [] OTHER -> updates[f])
     ELSE o[f]]

\* supabase update(updates).eq('id', id): the request body is the JSON of
\* the patch, in which keys with an undefined value do not appear.
RemoteApply(row, updates) ==
  [f \in DOMAIN row |->
     IF f \in DOMAIN updates /\ ~IsUndefined(f, updates[f])
     THEN updates[f] ELSE row[f]]

ReplaceById(list, id, new) ==
  [i \in DOMAIN list |-> IF list[i].id = id THEN new ELSE list[i]]

\* Array.isArray(order.history) ? order.history : []
HistoryOf(o) == IF o.id = NoOrder.id THEN <<>> ELSE o.history

\* The patch of handleReceive.
ReceivePatchNoEntry(order, user) ==
  [status |-> "RECEIVED", receivedAt |-> now, history |-> HistoryOf(order)]

ReceivePatch(order, user) ==
  [status |-> "RECEIVED", receivedAt |-> now,
   history |-> Append(HistoryOf(order), HistoryEntry(user.name, "receive", ""))]

\* The patch of confirmTransfer; targetOrder is orders.find(...) or NoOrder.
TransferPatchRedispatches(targetOrder, user, newOwnerName) ==
  [userName |-> newOwnerName, status |-> "DISPATCHED",
   history |-> Append(HistoryOf(targetOrder),
                      HistoryEntry(user.name, "transfer", newOwnerName))]

TransferPatch(targetOrder, user, newOwnerName) ==
  [userName |-> newOwnerName,
   history |-> Append(HistoryOf(targetOrder),
                      HistoryEntry(user.name, "transfer", newOwnerName))]

\* The patch of handleSaveDeadline.
DeadlinePatchTwoEntries(targetOrder, user, newDeadline) ==
  [deadline |-> newDeadline,
   history |-> HistoryOf(targetOrder) \o
                 << HistoryEntry(user.name, "deadline", ""),
                    HistoryEntry(user.name, "deadline", "") >>]

DeadlinePatch(targetOrder, user, newDeadline) ==
  [deadline |-> newDeadline,
   history |-> Append(HistoryOf(targetOrder), HistoryEntry(user.name, "deadline", ""))]

\* verificationNote of submitCompletion.
VerificationNote(finalVerification, hasPhoto, newAuditStatus) ==
  IF hasPhoto
  THEN <<"AI", finalVerification.match, finalVerification.detected>>
  ELSE IF newAuditStatus = "PENDING" THEN <<"NO_PHOTO_PENDING">> ELSE <<>>

\* The patch submitCompletion hands to onUpdateOrder, from the values its
\* closure holds (s: the submission in flight).
CompletionPatch(s) ==
  LET hasPhoto == s.photoData # NoPhoto
      note     == VerificationNote(s.finalVerification, hasPhoto, s.newAuditStatus)
      isUpdate == s.completionTarget.status = "COMPLETED"
  IN  [status |-> "COMPLETED", completedAt |-> now,
       returnReason |-> s.returnReason,
       completionRemark |-> <<s.remark, note>>,
       remarkImages |-> compressAll(s.remarkImages),
       completionPhoto |-> IF hasPhoto THEN compressBase64Image(s.photoData)
                           ELSE UndefPhoto,
       completionAudio |-> IF s.audioData # "" THEN s.audioData ELSE UndefAudio,
       auditStatus |-> s.newAuditStatus,
       history |-> Append(HistoryOf(s.completionTarget),
                          HistoryEntry(s.user.name,
                                IF isUpdate THEN "amend" ELSE "complete", note))]

\* let finalVerification = null
NoVerification ==
  [match |-> FALSE, detected |-> <<>>,
   message |-> Message(FALSE, Reason("none", 0, "", "", <<>>))]

\* The batch reassignment: no order selected, nothing in progress.  For
\* each selected id `outcome` keeps how its request ended.
NoBatch ==
  [pc |-> "idle", ids |-> {}, batchTeam |-> "", batchWorkerName |-> "",
   outcome |-> <<>>, reported |-> -1]

\* localStorage.getItem(STORAGE_KEY) === null: nothing was ever saved.
NoSaved == [saved |-> FALSE, text |-> <<>>]

\* The capture UI at rest.  `requested` counts the getUserMedia calls made
\* so far (call k yields stream k), `pending` holds the calls not yet
\* answered, `srcObject` is the stream attached to the <video> element (0:
\* none) and `live` the streams with a track still running.  The <video>
\* element is mounted, and videoRef.current set, exactly while
\* isCameraOpen.
NoCamera ==
  [isCameraOpen |-> FALSE, srcObject |-> 0, live |-> {}, requested |-> 0,
   pending |-> {}]

\* stopCamera
stopCamera(cam) ==
  IF cam.isCameraOpen /\ cam.srcObject # 0
  THEN [cam EXCEPT !.live = @ \ {cam.srcObject}, !.srcObject = 0,
                   !.isCameraOpen = FALSE]
  ELSE [cam EXCEPT !.isCameraOpen = FALSE]

IdleSub ==
  [pc |-> "idle", completionTarget |-> NoOrder, user |-> NoUser,
   returnReason |-> "", remark |-> "", remarkImages |-> <<>>,
   photoData |-> NoPhoto, audioData |-> "",
   finalVerification |-> NoVerification, newAuditStatus |-> ""]

\* What the worker can put in the dialog: the reason, the remark text, the
\* attachments, the photo and the recording.
ReturnReasons == {"", "NOBODY_HOME"}

RemarkText == "visited"

Recordings == {""}

(***************************************************************************)
(* Init: the page has just loaded and fetchOrders is awaiting its answer.   *)
(* The remote table holds one order assigned to the worker, with a         *)
(* deadline at time 1: either as it was imported, or already received in   *)
(* an earlier session.                                                     *)
(***************************************************************************)
InitDb ==
  LET imported == ImportedOrder(1, "Zhang", 1)
  IN  { << imported >>,
        << RemoteApply(imported, ReceivePatch(imported, WorkerUser)) >> }

InitPage ==
  /\ rawData = <<>>
  /\ storage = NoSaved
  /\ camera = NoCamera

InitSys ==
  /\ now = 1
  /\ ops = 0
  /\ currentUser = NoUser
  /\ orders = <<>>
  /\ isOnline = TRUE
  /\ loading = TRUE
  /\ completionTarget = NoOrder
  /\ sub = IdleSub
  /\ alert = ""
  /\ db \in InitDb
  /\ channel = <<>>
  /\ writes = {}
  /\ batch = NoBatch
  /\ InitPage

NotCompared ==
  [match |-> FALSE, score |-> -1, reason |-> Reason("none", 0, "", "", <<>>)]

InitCmpIdle ==
  /\ target = <<>>
  /\ candidate = <<>>
  /\ cmpResult = NotCompared

Init == InitSys /\ InitCmpIdle

(***************************************************************************)
(* The sync layer (App): fetchOrders, the realtime handler and             *)
(* handleOrderUpdate.                                                      *)
(***************************************************************************)
\* alert() is modal: while a message is shown the page runs no handler.
\* The steps of the environment are taken after the dismissal as well: as
\* the page does nothing in between, that is every order they can come in.
Running == alert = ""

\* The error branch of fetchOrders: the error is logged and the indicator
\* goes offline; setOrders is not called.
FetchErrorClears == orders' = <<>> /\ isOnline' = FALSE

FetchError == orders' = orders /\ isOnline' = FALSE

\* fetchOrders after its await: the select answered with the table, or
\* with an error.
FetchOrdersResolved ==
  /\ Running
  /\ loading
  /\ \E ok \in BOOLEAN :
       IF ok
       THEN orders' = db /\ isOnline' = TRUE
       ELSE FetchError
  /\ loading' = FALSE
  /\ UNCHANGED <<cmpVars, pageVars, camera, batch, now, ops, currentUser, completionTarget, sub,
                 alert, db, channel, writes>>

\* The postgres_changes callback on the next event of the push channel.
ApplyEventUpdatePrepends(prev, payload) ==
  CASE payload.eventType = "INSERT" -> <<payload.new>> \o prev
    [] payload.eventType = "UPDATE" -> <<payload.new>> \o prev
    [] payload.eventType = "DELETE" ->
         SelectSeq(prev, LAMBDA o : o.id # payload.old.id)
    [] OTHER -> prev

ApplyEventUpsert(prev, payload) ==
  CASE payload.eventType = "INSERT" -> <<payload.new>> \o prev
    [] payload.eventType = "UPDATE" ->
         IF \E i \in DOMAIN prev : prev[i].id = payload.new.id
         THEN ReplaceById(prev, payload.new.id, payload.new)
         ELSE <<payload.new>> \o prev
    [] payload.eventType = "DELETE" ->
         SelectSeq(prev, LAMBDA o : o.id # payload.old.id)
    [] OTHER -> prev

ApplyEventKeepStatus(prev, payload) ==
  CASE payload.eventType = "INSERT" -> <<payload.new>> \o prev
    [] payload.eventType = "UPDATE" ->
         [i \in DOMAIN prev |->
            IF prev[i].id # payload.new.id THEN prev[i]
            ELSE IF StatusRank(prev[i].status) > StatusRank(payload.new.status)
                 THEN [payload.new EXCEPT !.status = prev[i].status]
                 ELSE payload.new]
    [] payload.eventType = "DELETE" ->
         SelectSeq(prev, LAMBDA o : o.id # payload.old.id)
    [] OTHER -> prev

ApplyEventKeepsHistory(prev, payload) ==
  CASE payload.eventType = "INSERT" -> <<payload.new>> \o prev
    [] payload.eventType = "UPDATE" ->
         [i \in DOMAIN prev |->
            IF prev[i].id # payload.new.id THEN prev[i]
            ELSE IF Len(prev[i].history) > Len(payload.new.history)
                 THEN [payload.new EXCEPT !.history = prev[i].history]
                 ELSE payload.new]
    [] payload.eventType = "DELETE" ->
         SelectSeq(prev, LAMBDA o : o.id # payload.old.id)
    [] OTHER -> prev

ApplyEventIgnoresInsert(prev, payload) ==
  CASE payload.eventType = "UPDATE" -> ReplaceById(prev, payload.new.id, payload.new)
    [] payload.eventType = "DELETE" ->
         SelectSeq(prev, LAMBDA o : o.id # payload.old.id)
    [] OTHER -> prev

ApplyEvent(prev, payload) ==
  CASE payload.eventType = "INSERT" -> <<payload.new>> \o prev
    [] payload.eventType = "UPDATE" -> ReplaceById(prev, payload.new.id, payload.new)
    [] payload.eventType = "DELETE" ->
         SelectSeq(prev, LAMBDA o : o.id # payload.old.id)
    [] OTHER -> prev

OnRemoteEvent ==
  /\ Running
  /\ channel # <<>>
  /\ orders' = ApplyEvent(orders, Head(channel))
  /\ channel' = Tail(channel)
  /\ UNCHANGED <<cmpVars, pageVars, camera, batch, now, ops, currentUser, isOnline, loading,
                 completionTarget, sub, alert, db, writes>>

\* handleOrderUpdate up to its await: the optimistic local change and the
\* request sent.  A request in flight is kept with the session that issued
\* it and the operation it comes from.
Write(orderId, updates, user, origin) ==
  [id |-> orderId, updates |-> updates, user |-> user, origin |-> origin]

handleOrderUpdateDeferred(orderId, updates, user, origin) ==
  /\ orders' = orders
  /\ writes' = writes \cup {Write(orderId, updates, user, origin)}

handleOrderUpdate(orderId, updates, user, origin) ==
  /\ orders' = [i \in DOMAIN orders |->
                  IF orders[i].id = orderId
                  THEN LocalApply(orders[i], updates) ELSE orders[i]]
  /\ writes' = writes \cup {Write(orderId, updates, user, origin)}

UpdateEvent(row) == [eventType |-> "UPDATE", new |-> row]

\* closeCompletionModal: the dialog is closed and the camera stopped.
closeCompletionModal ==
  /\ completionTarget' = NoOrder
  /\ camera' = stopCamera(camera)

\* A request of handleOrderUpdate is answered.  On success the row is
\* patched in the table and the table publishes the new row; on an error
\* the table is unchanged and handleOrderUpdate only logs it.  The caller
\* that awaited it (submitCompletion) then closes its dialog.
UpdateResolved ==
  \E w \in writes, ok \in BOOLEAN :
    /\ Running
    /\ w.origin # "batch"
    /\ writes' = writes \ {w}
    /\ IF ok /\ Find(db, w.id).id # NoOrder.id
       THEN LET row == RemoteApply(Find(db, w.id), w.updates)
            IN  /\ db' = ReplaceById(db, w.id, row)
                /\ channel' = Append(channel, UpdateEvent(row))
       ELSE UNCHANGED <<db, channel>>
    /\ IF w.origin = "submit"
       THEN closeCompletionModal /\ sub' = IdleSub
       ELSE UNCHANGED <<completionTarget, sub, camera>>
    /\ UNCHANGED <<cmpVars, pageVars, batch, now, ops, currentUser, orders, isOnline, loading,
                   alert>>

(***************************************************************************)
(* The session (App.handleLogin), and the dismissal of an alert box.       *)
(***************************************************************************)
handleLogin ==
  /\ Running
  /\ currentUser = NoUser
  /\ \E loggedInUser \in Users : currentUser' = loggedInUser
  /\ UNCHANGED <<cmpVars, pageVars, camera, batch, now, ops, orders, isOnline, loading,
                 completionTarget, sub, alert, db, channel, writes>>

DismissAlert ==
  /\ alert # ""
  /\ alert' = ""
  /\ UNCHANGED <<cmpVars, pageVars, camera, batch, now, ops, currentUser, orders, isOnline, loading,
                 completionTarget, sub, db, channel, writes>>

(***************************************************************************)
(* The worker's operations (ResultsView).                                  *)
(***************************************************************************)
\* The cards a session can act on: filteredOrders, with no dialog covering
\* the list.
Listed(o) ==
  /\ currentUser # NoUser
  /\ completionTarget = NoOrder
  /\ VisibleTo(currentUser, o)

\* handleReceive, behind the receive button (WORKER, DISPATCHED or PENDING).
handleReceive ==
  /\ Running
  /\ currentUser.role = "WORKER"
  /\ \E i \in DOMAIN orders :
       LET order == orders[i]
       IN  /\ Listed(order)
           /\ order.status \in {"DISPATCHED", "PENDING"}
           /\ IF Expired(order.deadline)
              THEN /\ alert' = "DEADLINE_PASSED"
                   /\ UNCHANGED <<orders, writes, ops>>
              ELSE /\ ops < MaxOps
                   /\ ops' = ops + 1
                   /\ handleOrderUpdate(order.id, ReceivePatch(order, currentUser),
                                        currentUser, "receive")
                   /\ alert' = alert
  /\ UNCHANGED <<cmpVars, pageVars, camera, batch, now, currentUser, isOnline, loading,
                 completionTarget, sub, db, channel>>

\* openCompletionModal, behind the complete / view buttons (RECEIVED or
\* COMPLETED, either role): the dialog keeps the order as it is now.
openCompletionModal ==
  /\ Running
  /\ \E i \in DOMAIN orders :
       /\ Listed(orders[i])
       /\ orders[i].status \in {"RECEIVED", "COMPLETED"}
       /\ completionTarget' = orders[i]
  /\ UNCHANGED <<cmpVars, pageVars, camera, batch, now, ops, currentUser, orders, isOnline, loading,
                 sub, alert, db, channel, writes>>

closeCompletionModalClicked ==
  /\ Running
  /\ completionTarget # NoOrder
  /\ closeCompletionModal
  /\ UNCHANGED <<cmpVars, pageVars, batch, now, ops, currentUser, orders, isOnline, loading,
                 sub, alert, db, channel, writes>>

\* What the dialog can hold when submit is pressed: it opens with the
\* order's stored photo and attachments, and the worker can retake, add or
\* remove them.
PhotoChoices(o) == RawPhotos \cup {NoPhoto, o.completionPhoto}

ImageChoices(o) == {<<>>, <<Attachment>>, o.remarkImages}

\* !hasPhoto && !hasAttachments
MissingProofNever(photoData, remarkImages) == FALSE

MissingProof(photoData, remarkImages) ==
  photoData = NoPhoto /\ remarkImages = <<>>

\* newAuditStatus of an accepted worker submission: 'PASSED' behind a
\* verified photo, 'PENDING' on the attachment-only path.
AuditStatusAlwaysPassed(hasPhoto) == "PASSED"

AuditStatusFor(hasPhoto) == IF hasPhoto THEN "PASSED" ELSE "PENDING"

\* The placeholder verification of the attachment-only path.
NoPhotoVerification ==
  [match |-> TRUE, detected |-> <<"NONE">>,
   message |-> Message(FALSE, Reason("manual", 0, "", "", <<>>))]

\* submitCompletion up to its first await: the guards, then the start of
\* the verification call (photo) or of the compression (attachments only).
\* One submission is in flight at a time.
submitCompletion ==
  /\ Running
  /\ currentUser # NoUser
  /\ completionTarget # NoOrder
  /\ sub.pc = "idle"
  /\ \E returnReason \in ReturnReasons,
        photoData \in PhotoChoices(completionTarget),
        remarkImages \in ImageChoices(completionTarget),
        audioData \in Recordings :
       IF currentUser.role = "WORKER" /\ Expired(completionTarget.deadline)
       THEN /\ alert' = "DEADLINE_PASSED"
            /\ closeCompletionModal
            /\ UNCHANGED <<sub, ops>>
       ELSE IF currentUser.role = "ADMIN"
       THEN /\ closeCompletionModal
            /\ UNCHANGED <<sub, ops, alert>>
       ELSE IF returnReason = ""
       THEN /\ alert' = "NO_REASON"
            /\ UNCHANGED <<sub, ops, completionTarget, camera>>
       ELSE IF MissingProof(photoData, remarkImages)
       THEN /\ alert' = "NO_PROOF"
            /\ UNCHANGED <<sub, ops, completionTarget, camera>>
       ELSE /\ ops < MaxOps
            /\ ops' = ops + 1
            /\ sub' = [pc |-> IF photoData # NoPhoto THEN "verifying"
                              ELSE "compressing",
                       completionTarget |-> completionTarget,
                       user |-> currentUser,
                       returnReason |-> returnReason,
                       remark |-> RemarkText,
                       remarkImages |-> remarkImages,
                       photoData |-> photoData,
                       audioData |-> audioData,
                       finalVerification |->
                         IF photoData # NoPhoto THEN NoVerification
                         ELSE NoPhotoVerification,
                       newAuditStatus |->
                         IF photoData # NoPhoto THEN ""
                         ELSE AuditStatusFor(FALSE)]
            /\ UNCHANGED <<alert, completionTarget, camera>>
  /\ UNCHANGED <<cmpVars, pageVars, batch, now, currentUser, orders, isOnline, loading, db,
                 channel, writes>>

\* if (!finalVerification.match) { alert(...); return; }
VerificationPassedAlways(finalVerification) == TRUE

VerificationPassed(finalVerification) == finalVerification.match

\* performAICheck returns or throws (no API key, the service unreachable or
\* answering with an error status).
VerificationReturned ==
  /\ Running
  /\ sub.pc = "verifying"
  /\ \E answered \in BOOLEAN :
       IF ~answered
       THEN /\ alert' = "VERIFY_ERROR"
            /\ sub' = IdleSub
            /\ ops' = ops - 1
       ELSE LET finalVerification ==
                  performAICheck(sub.photoData.reads,
                                 sub.completionTarget.serialCode)
            IN  IF ~VerificationPassed(finalVerification)
                THEN /\ alert' = "VERIFY_FAILED"
                     /\ sub' = IdleSub
                     /\ ops' = ops - 1
                ELSE /\ alert' = alert
                     /\ ops' = ops
                     /\ sub' = [sub EXCEPT !.pc = "compressing",
                                           !.finalVerification = finalVerification,
                                           !.newAuditStatus =
                                              AuditStatusFor(TRUE)]
  /\ UNCHANGED <<cmpVars, pageVars, camera, batch, now, currentUser, orders, isOnline, loading,
                 completionTarget, db, channel, writes>>

\* The compression awaits are over: onUpdateOrder is called with the patch.
CompletionApplied ==
  /\ Running
  /\ sub.pc = "compressing"
  /\ handleOrderUpdate(sub.completionTarget.id, CompletionPatch(sub),
                       sub.user, "submit")
  /\ sub' = [sub EXCEPT !.pc = "writing"]
  /\ UNCHANGED <<cmpVars, pageVars, camera, batch, now, ops, currentUser, isOnline, loading,
                 completionTarget, alert, db, channel>>

(***************************************************************************)
(* The administrator's operations (ResultsView).                           *)
(***************************************************************************)
\* openTransferModal and confirmTransfer on a listed order; a blank name
\* makes confirmTransfer return at once.
confirmTransfer ==
  /\ Running
  /\ currentUser.role = "ADMIN"
  /\ \E i \in DOMAIN orders, newOwnerName \in Names \cup {""} :
       /\ Listed(orders[i])
       /\ IF newOwnerName = ""
          THEN UNCHANGED <<orders, writes, ops>>
          ELSE /\ ops < MaxOps
               /\ ops' = ops + 1
               /\ handleOrderUpdate(orders[i].id,
                    TransferPatch(Find(orders, orders[i].id), currentUser,
                                  newOwnerName),
                    currentUser, "transfer")
  /\ UNCHANGED <<cmpVars, pageVars, camera, batch, now, currentUser, isOnline, loading,
                 completionTarget, sub, alert, db, channel>>

\* openDeadlineModal and handleSaveDeadline on a listed order: a new
\* deadline, or none.
handleSaveDeadline ==
  /\ Running
  /\ currentUser.role = "ADMIN"
  /\ ops < MaxOps
  /\ \E i \in DOMAIN orders, newDeadline \in {NoDeadline, now} :
       /\ Listed(orders[i])
       /\ handleOrderUpdate(orders[i].id,
            DeadlinePatch(Find(orders, orders[i].id), currentUser, newDeadline),
            currentUser, "deadline")
  /\ ops' = ops + 1
  /\ UNCHANGED <<cmpVars, pageVars, camera, batch, now, currentUser, isOnline, loading,
                 completionTarget, sub, alert, db, channel>>

(***************************************************************************)
(* The environment: time, and an administrator working in another browser  *)
(* whose committed updates the table publishes to this one.                *)
(***************************************************************************)
Tick ==
  /\ Running
  /\ now < MaxTime
  /\ now' = now + 1
  /\ UNCHANGED <<cmpVars, pageVars, camera, batch, ops, currentUser, orders, isOnline, loading,
                 completionTarget, sub, alert, db, channel, writes>>

RemoteCommit(id, updates) ==
  LET row == RemoteApply(Find(db, id), updates)
  IN  /\ db' = ReplaceById(db, id, row)
      /\ channel' = Append(channel, UpdateEvent(row))

RemoteTransfer ==
  /\ Running
  /\ ops < MaxOps
  /\ ops' = ops + 1
  /\ \E i \in DOMAIN db, newOwnerName \in Names :
       RemoteCommit(db[i].id, TransferPatch(db[i], AdminUser, newOwnerName))
  /\ UNCHANGED <<cmpVars, pageVars, camera, batch, now, currentUser, orders, isOnline, loading,
                 completionTarget, sub, alert, writes>>

RemoteSaveDeadline ==
  /\ Running
  /\ ops < MaxOps
  /\ ops' = ops + 1
  /\ \E i \in DOMAIN db, newDeadline \in {NoDeadline, now} :
       RemoteCommit(db[i].id, DeadlinePatch(db[i], AdminUser, newDeadline))
  /\ UNCHANGED <<cmpVars, pageVars, camera, batch, now, currentUser, orders, isOnline, loading,
                 completionTarget, sub, alert, writes>>

Next ==
  \/ FetchOrdersResolved
  \/ OnRemoteEvent
  \/ UpdateResolved
  \/ handleLogin
  \/ DismissAlert
  \/ handleReceive
  \/ openCompletionModal
  \/ closeCompletionModalClicked
  \/ submitCompletion
  \/ VerificationReturned
  \/ CompletionApplied
  \/ confirmTransfer
  \/ handleSaveDeadline
  \/ Tick
  \/ RemoteTransfer
  \/ RemoteSaveDeadline

Spec == Init /\ [][Next]_vars


(***************************************************************************)
(* The identity matcher on its own: a pair of raw strings is drawn, and    *)
(* strictCompare is applied to it.                                         *)
(***************************************************************************)
RECURSIVE StringsUpTo(_)
StringsUpTo(n) ==
  IF n = 0 THEN {<<>>}
  ELSE LET shorter == StringsUpTo(n - 1)
       IN  shorter \cup {Append(s, c) : s \in shorter, c \in InputChars}

\* The pairs of the specification's examples: "712" with "212", and "0123"
\* with "OI23" and with "OIZ3".
Str712 == <<"7", "1", "2">>

Str212 == <<"2", "1", "2">>

Str0123 == <<"0", "1", "2", "3">>

StrOI23 == <<"O", "I", "2", "3">>

StrOIZ3 == <<"O", "I", "Z", "3">>

ExamplePairs ==
  { <<Str712, Str212>>, <<Str0123, StrOI23>>, <<Str0123, StrOIZ3>> }

InitCmp ==
  /\ \E pair \in (StringsUpTo(MaxLen) \X StringsUpTo(MaxLen)) \cup ExamplePairs :
       /\ target = pair[1]
       /\ candidate = pair[2]
  /\ cmpResult = NotCompared
  /\ now = 1
  /\ ops = 0
  /\ currentUser = NoUser
  /\ orders = <<>>
  /\ isOnline = TRUE
  /\ loading = FALSE
  /\ completionTarget = NoOrder
  /\ sub = IdleSub
  /\ alert = ""
  /\ db = <<>>
  /\ channel = <<>>
  /\ writes = {}
  /\ batch = NoBatch
  /\ InitPage

Compare ==
  /\ cmpResult = NotCompared
  /\ cmpResult' = strictCompare(target, candidate)
  /\ UNCHANGED <<target, candidate, now, ops, currentUser, orders, isOnline,
                 loading, completionTarget, sub, alert, db, channel, writes,
                 batch, rawData, storage, camera>>

NextCmp == Compare

SpecCmp == InitCmp /\ [][NextCmp]_vars

(***************************************************************************)
(* Properties of the identity matcher (under SpecCmp).                     *)
(***************************************************************************)
Compared == cmpResult # NotCompared

NormT == normalizeString(target)

NormC == normalizeString(candidate)

Compared_Positions == 1 .. Min(Len(NormT), Len(NormC))

\* The pair is in the table, read in either direction.
InTable(a, b) ==
  \/ a \in DOMAIN ALLOWED_SWAPS /\ b \in Range(ALLOWED_SWAPS[a])
  \/ b \in DOMAIN ALLOWED_SWAPS /\ a \in Range(ALLOWED_SWAPS[b])

Differing == {i \in Compared_Positions : NormT[i] # NormC[i]}

\* C6: whenever, at some index within the shorter normalized string, the
\* two characters differ and the pair is not in ALLOWED_SWAPS, the result
\* is match = false, wherever the index is and whatever the other
\* characters are; "712" against "212" fails.
C6_HardMismatchFails ==
  /\ (Compared /\ (\E i \in Differing : ~InTable(NormT[i], NormC[i])))
       => ~cmpResult.match /\ cmpResult.score = 0
  /\ (Compared /\ target = Str712 /\ candidate = Str212) => ~cmpResult.match

\* C6 witness: a compared pair of equal normalized length whose first
\* position is a listed swap and whose unlisted mismatch comes later.
C6_Witness ==
  /\ Compared
  /\ Len(NormT) = Len(NormC)
  /\ \E i \in Differing : i > 1 /\ ~InTable(NormT[i], NormC[i])
  /\ 1 \in Differing /\ InTable(NormT[1], NormC[1])
  /\ ~cmpResult.match

\* C7: for a pair that passes the length check and whose differing
\* positions are all listed swaps, the result is a match if and only if
\* there are at most two such positions; "0123" against "OI23" matches
\* (two swaps, cost 1.0) and "0123" against "OIZ3" fails (three, cost 1.5).
C7_SwapBudget ==
  /\ ( /\ Compared
       /\ ~LengthMismatch(Len(NormT), Len(NormC))
       /\ \A i \in Differing : InTable(NormT[i], NormC[i]) )
       => (cmpResult.match <=> Cardinality(Differing) <= 2)
  /\ (Compared /\ target = Str0123 /\ candidate = StrOI23) =>
       /\ cmpResult.match
       /\ cmpResult.reason.kind = "fuzzy"
       /\ Len(cmpResult.reason.details) = 2
  /\ (Compared /\ target = Str0123 /\ candidate = StrOIZ3) =>
       /\ ~cmpResult.match
       /\ cmpResult.reason.kind = "toomany"

\* C7 witness: "0123" against "OIZ3": three listed swaps and nothing else,
\* refused for their number.
C7_Witness ==
  /\ Compared
  /\ target = Str0123 /\ candidate = StrOIZ3
  /\ Cardinality(Differing) = 3
  /\ \A i \in Differing : InTable(NormT[i], NormC[i])
  /\ ~cmpResult.match
  /\ cmpResult.reason.kind = "toomany"

DropAt(s, k) == SubSeq(s, 1, k - 1) \o SubSeq(s, k + 1, Len(s))

\* C8: normalized lengths that differ by more than 1 give match = false
\* with the length-mismatch reason, whatever the content; with a difference
\* of exactly 1 a match means that the longer string, with one of its
\* characters dropped, matches the shorter one at equal length.
C8_LengthCheck ==
  Compared =>
    /\ AbsDiff(Len(NormT), Len(NormC)) > 1 =>
         /\ ~cmpResult.match
         /\ cmpResult.reason.kind = "length"
         /\ cmpResult.reason.details = <<Len(NormT), Len(NormC)>>
    /\ AbsDiff(Len(NormT), Len(NormC)) <= 1 => cmpResult.reason.kind # "length"
    /\ (AbsDiff(Len(NormT), Len(NormC)) = 1 /\ cmpResult.match) =>
         IF Len(NormT) > Len(NormC)
         THEN \E k \in DOMAIN NormT : strictCompare(DropAt(NormT, k), NormC).match
         ELSE \E k \in DOMAIN NormC : strictCompare(NormT, DropAt(NormC, k)).match

\* C8 witness: the candidate is the target with its last two characters
\* missing, and is refused for its length.
C8_Witness ==
  /\ Compared
  /\ Len(NormT) = Len(NormC) + 2
  /\ SubSeq(NormT, 1, Len(NormC)) = NormC
  /\ ~cmpResult.match
  /\ cmpResult.reason.kind = "length"

\* C9: strictCompare is reflexive: a string compared with itself matches.
C9_Reflexive ==
  (Compared /\ target = candidate) => cmpResult.match

\* C9 witness: a string with a lower-case letter and a separator, compared
\* with itself.
C9_Witness ==
  /\ Compared
  /\ target = candidate
  /\ "o" \in Range(target) /\ "-" \in Range(target)
  /\ cmpResult.match

\* The characters a normalized string is made of.
Alphabet == Digits \cup Range(UpperCase)

\* b is listed for a exactly when a is listed for b.
TableSymmetric ==
  \A a \in Alphabet, b \in Alphabet : SwapAllowed(a, b) <=> SwapAllowed(b, a)

\* C33: the table lists b for a exactly when it lists a for b, and the
\* outcome of strictCompare is the same with its two arguments exchanged.
C33_Symmetric ==
  /\ TableSymmetric
  /\ Compared => (cmpResult.match <=> strictCompare(candidate, target).match)

\* C33 witness: the target has an 'o' where the candidate has a '0', or
\* the other way round, and they match in spite of it.
C33_Witness ==
  /\ Compared
  /\ cmpResult.match
  /\ Len(NormT) # Len(NormC)
  /\ \E i \in Differing : NormT[i] = "O" /\ NormC[i] = "0"
  /\ strictCompare(candidate, target).reason.kind = "fuzzy"

\* C34: a match is given the exact-match reason only when the two
\* normalized strings are identical; a match of strings that differ after
\* normalization, by a swapped or by a dropped or extra character, is
\* given the fuzzy-match reason.
C34_ExactOnlyWhenIdentical ==
  (Compared /\ cmpResult.match) =>
    /\ cmpResult.reason.kind \in {"exact", "fuzzy"}
    /\ cmpResult.reason.kind = "exact" <=> NormT = NormC

\* C34 witness: the candidate is the target without its last character;
\* they match, with the exact-match reason.
C34_Witness ==
  /\ Compared
  /\ cmpResult.match
  /\ Len(NormT) = 3
  /\ NormC = SubSeq(NormT, 1, 2)
  /\ cmpResult.reason.kind = "exact"

(***************************************************************************)
(* Properties of the order operations (under Spec).                        *)
(***************************************************************************)
\* The requests a step issues.
Issued == writes' \ writes

\* A receive or completion request of a worker session.
WorkerMutation(w) ==
  w.user.role = "WORKER" /\ w.origin \in {"receive", "submit"}

\* C1: a submission with a photo goes on to the COMPLETED mutation only if
\* performAICheck returned match = true for that photo and the order's
\* serial; when the check returns match = false or throws, the submission
\* ends issuing no request, and the collection (status, completion payload,
\* history, auditStatus of every order) and the table are as before.
C1_Step ==
  /\ (sub.pc = "verifying" /\ sub'.pc = "compressing") =>
       performAICheck(sub.photoData.reads,
                      sub.completionTarget.serialCode).match
  /\ (sub.pc = "verifying" /\ sub'.pc = "idle") =>
       /\ alert' \in {"VERIFY_FAILED", "VERIFY_ERROR"}
       /\ orders' = orders /\ writes' = writes
       /\ db' = db /\ channel' = channel
  /\ \A w \in Issued :
       (w.origin = "submit" /\ w.updates.completionPhoto # UndefPhoto) =>
         /\ sub.finalVerification.match
         /\ performAICheck(w.updates.completionPhoto.reads,
                           sub.completionTarget.serialCode).match
         /\ w.updates.status = "COMPLETED"
         /\ w.updates.auditStatus = "PASSED"

C1_FailClosed == [][C1_Step]_vars

\* C1 witness: the check has refused a photo; the order is still RECEIVED
\* with no auditStatus, and no request is in flight.
C1_Witness ==
  /\ alert = "VERIFY_FAILED"
  /\ sub = IdleSub
  /\ writes = {}
  /\ \E i \in DOMAIN orders :
       /\ orders[i].status = "RECEIVED"
       /\ orders[i].auditStatus = ""
       /\ orders[i].completionPhoto = NoPhoto

\* C2: every receive or completion request of a worker session is for an
\* order whose current userName (and team) in the collection is the
\* session's, under any interleaving, a reassignment after the dialog was
\* opened included.
C2_Step ==
  \A w \in Issued :
    WorkerMutation(w) =>
      LET o == Find(orders, w.id)
      IN  o.id # NoOrder.id /\ VisibleTo(w.user, o)

C2_OnlyAssigneeMutates == [][C2_Step]_vars

\* C2 witness: the table holds an order assigned to Li and completed by
\* Zhang.
C2_Witness ==
  \E i \in DOMAIN db :
    /\ db[i].userName = "Li"
    /\ db[i].status = "COMPLETED"
    /\ db[i].history[Len(db[i].history)].actor = "Zhang"
    /\ db[i].history[Len(db[i].history)].action = "complete"

\* C3: whenever a worker's receive or completion request is issued, the
\* order's deadline in the collection is absent or not yet passed at that
\* moment.
C3_Step ==
  \A w \in Issued :
    WorkerMutation(w) =>
      LET o == Find(orders, w.id)
      IN  o.id # NoOrder.id /\ ~Expired(o.deadline)

C3_NoMutationAfterDeadline == [][C3_Step]_vars

\* C3 witness: the table holds an order completed after its deadline.
C3_Witness ==
  \E i \in DOMAIN db :
    /\ db[i].status = "COMPLETED"
    /\ db[i].deadline # NoDeadline
    /\ db[i].completedAt > db[i].deadline

\* C4: in the local collection the status of an order never moves backward
\* in PENDING -> DISPATCHED -> RECEIVED -> COMPLETED, whatever the step.
C4_Step ==
  \A i \in DOMAIN orders, j \in DOMAIN orders' :
    orders[i].id = orders'[j].id =>
      StatusRank(orders'[j].status) >= StatusRank(orders[i].status)

C4_StatusForward == [][C4_Step]_vars

\* C4 witness: the collection shows DISPATCHED again for an order the
\* worker has received, the request of which is still in flight.
C4_Witness ==
  \E i \in DOMAIN orders, w \in writes :
    /\ w.origin = "receive" /\ w.id = orders[i].id
    /\ orders[i].status = "DISPATCHED"

IsPrefix(a, b) == Len(a) <= Len(b) /\ SubSeq(b, 1, Len(a)) = a

HistoryKept(before, after) ==
  \A i \in DOMAIN before, j \in DOMAIN after :
    before[i].id = after[j].id => IsPrefix(before[i].history, after[j].history)

\* C5: the history of an order, in the collection and in the table, is
\* append-only: a step keeps the entries it had, in their order.
C5_Step == HistoryKept(orders, orders') /\ HistoryKept(db, db')

C5_HistoryAppendOnly == [][C5_Step]_vars

\* C5 witness: the table holds a completed order whose deadline the
\* administrator has cleared, with no entry of that edit in its history.
C5_Witness ==
  \E i \in DOMAIN db :
    /\ db[i].status = "COMPLETED"
    /\ db[i].deadline = NoDeadline
    /\ \A k \in DOMAIN db[i].history : db[i].history[k].action # "deadline"

\* C10: a submission with no photo and no attachments never gets past the
\* guards: no submission in flight and no completion request is without
\* proof, and the step that refuses it changes nothing but the alert.
C10_Step ==
  /\ sub'.pc # "idle" =>
       ~(sub'.photoData = NoPhoto /\ sub'.remarkImages = <<>>)
  /\ \A w \in Issued :
       w.origin = "submit" =>
         \/ w.updates.completionPhoto # UndefPhoto
         \/ w.updates.remarkImages # <<>>
  /\ (alert = "" /\ alert' = "NO_PROOF") =>
       /\ orders' = orders /\ writes' = writes /\ db' = db
       /\ channel' = channel /\ sub' = sub
       /\ completionTarget' = completionTarget

C10_NoProofRejected == [][C10_Step]_vars

\* C10 witness: a submission with a reason and no proof has been refused;
\* the dialog is still open on the order and nothing is in flight.
C10_Witness ==
  /\ alert = "NO_PROOF"
  /\ completionTarget # NoOrder
  /\ sub = IdleSub
  /\ writes = {}
  /\ \E i \in DOMAIN orders :
       orders[i].id = completionTarget.id /\ orders[i] = completionTarget

\* C11: an accepted worker completion carries status COMPLETED with
\* auditStatus PASSED when a photo was submitted (and verified), and
\* PENDING when it was submitted with attachments only; the local order
\* shows both at once.
C11_Step ==
  \A w \in Issued :
    w.origin = "submit" =>
      /\ w.updates.status = "COMPLETED"
      /\ w.updates.auditStatus =
           (IF w.updates.completionPhoto # UndefPhoto THEN "PASSED"
            ELSE "PENDING")
      /\ w.updates.completionPhoto = UndefPhoto => w.updates.remarkImages # <<>>
      /\ Find(orders', w.id).status = "COMPLETED"
      /\ Find(orders', w.id).auditStatus = w.updates.auditStatus

C11_AuditStatus == [][C11_Step]_vars

\* C11 witness: the photo read as "O812345" against the serial "0812345":
\* the table holds the order COMPLETED with auditStatus PASSED.
C11_Witness ==
  \E i \in DOMAIN db :
    /\ db[i].serialCode = <<"0", "8", "1", "2", "3", "4", "5">>
    /\ db[i].completionPhoto.reads = << <<"O", "8", "1", "2", "3", "4", "5">> >>
    /\ db[i].status = "COMPLETED"
    /\ db[i].auditStatus = "PASSED"

\* The step in which a request of handleOrderUpdate is answered with an
\* error: a request leaves, and the table is as before.
WriteFailed == writes' # writes /\ writes' \subseteq writes /\ db' = db

\* C12: handleOrderUpdate patches the local order in the step that issues
\* the request, the table being still unchanged, and a failed request
\* leaves the local collection as it is: the patched fields stay.
C12_Step ==
  /\ \A w \in Issued :
       /\ db' = db
       /\ \A f \in DOMAIN w.updates :
            ~IsUndefined(f, w.updates[f]) => Find(orders', w.id)[f] = w.updates[f]
  /\ WriteFailed => orders' = orders

C12_OptimisticNoRollback == [][C12_Step]_vars

\* C12 witness: the worker's receive request has failed: nothing is in
\* flight, the table still holds the order as imported, and the local
\* order is RECEIVED with the worker's entry in its history.
C12_Witness ==
  /\ writes = {}
  /\ channel = <<>>
  /\ \E i \in DOMAIN orders :
       /\ orders[i].status = "RECEIVED"
       /\ Len(orders[i].history) = 2
       /\ Find(db, orders[i].id) = ImportedOrder(orders[i].id, "Zhang", 1)

(***************************************************************************)
(* The realtime handler on its own: a local collection and a run of        *)
(* events are drawn, and the handler applies the events in arrival order.  *)
(* The local orders start with the deadline 1 and the rows of the events   *)
(* have none, so that a local order without a deadline came from an event. *)
(***************************************************************************)
MaxEvents == 2

MergeIds == {1, 2}

InsertEvent(row) == [eventType |-> "INSERT", new |-> row]

DeleteEvent(id) == [eventType |-> "DELETE", old |-> [id |-> id]]

RemoteRows == {ImportedOrder(id, n, NoDeadline) : id \in MergeIds, n \in Names}

Events ==
  {InsertEvent(row) : row \in RemoteRows} \cup
  {UpdateEvent(row) : row \in RemoteRows} \cup
  {DeleteEvent(id) : id \in MergeIds}

RECURSIVE EventRuns(_)
EventRuns(n) ==
  IF n = 0 THEN {<<>>}
  ELSE LET shorter == EventRuns(n - 1)
       IN  shorter \cup {Append(r, e) : r \in shorter, e \in Events}

\* The collections a full load can give: no id twice.
LoadedCollections ==
  {<<>>} \cup
  {<<ImportedOrder(id, "Zhang", 1)>> : id \in MergeIds} \cup
  {<<ImportedOrder(p[1], "Zhang", 1), ImportedOrder(p[2], "Zhang", 1)>> :
     p \in {q \in MergeIds \X MergeIds : q[1] # q[2]}}

InitMerge ==
  /\ orders \in LoadedCollections
  /\ channel \in EventRuns(MaxEvents)
  /\ target = <<>>
  /\ candidate = <<>>
  /\ cmpResult = NotCompared
  /\ now = 1
  /\ ops = 0
  /\ currentUser = NoUser
  /\ isOnline = TRUE
  /\ loading = FALSE
  /\ completionTarget = NoOrder
  /\ sub = IdleSub
  /\ alert = ""
  /\ db = <<>>
  /\ writes = {}
  /\ batch = NoBatch
  /\ InitPage

NextMerge == OnRemoteEvent

SpecMerge == InitMerge /\ [][NextMerge]_vars

(***************************************************************************)
(* Properties of the realtime handler (under SpecMerge and Spec).          *)
(***************************************************************************)
\* The step is the handler applying the event at the head of the channel.
EventApplied == channel # <<>> /\ channel' = Tail(channel)

EventId(e) == IF e.eventType = "DELETE" THEN e.old.id ELSE e.new.id

Present(list, id) == \E i \in DOMAIN list : list[i].id = id

\* C13: an INSERT event prepends its record only if no order with that id
\* is present; for an id already present it leaves the collection as it is.
C13_Step ==
  (EventApplied /\ Head(channel).eventType = "INSERT") =>
    LET e == Head(channel)
    IN  IF Present(orders, e.new.id)
        THEN orders' = orders
        ELSE orders' = <<e.new>> \o orders

C13_InsertIfAbsent == [][C13_Step]_vars

\* C13 witness: the collection holds two orders with the same id.
C13_Witness ==
  \E i \in DOMAIN orders, j \in DOMAIN orders :
    i # j /\ orders[i].id = orders[j].id

\* C14: applying an UPDATE event again leaves the collection as the first
\* application left it, and so does a DELETE event; a DELETE event for an
\* id that is not present changes nothing.
C14_Step ==
  EventApplied =>
    LET e == Head(channel)
    IN  /\ e.eventType \in {"UPDATE", "DELETE"} => ApplyEvent(orders', e) = orders'
        /\ (e.eventType = "DELETE" /\ ~Present(orders, e.old.id)) => orders' = orders

C14_UpdateDeleteIdempotent == [][C14_Step]_vars

\* C14 witness: the next event is an UPDATE whose row the collection
\* already holds, the same event having been applied before.
C14_Witness ==
  /\ channel # <<>>
  /\ Head(channel).eventType = "UPDATE"
  /\ \E i \in DOMAIN orders : orders[i] = Head(channel).new

\* C15: after an UPDATE event is applied, every local record with the
\* event's id is the event's record in full, whatever the local record
\* was (an optimistic local change included), and the other records are
\* as before: the event that arrives later wins.
C15_Step ==
  (EventApplied /\ Head(channel).eventType = "UPDATE") =>
    LET e == Head(channel)
    IN  /\ Len(orders') = Len(orders)
        /\ \A j \in DOMAIN orders :
             IF orders[j].id = e.new.id
             THEN orders'[j] = e.new
             ELSE orders'[j] = orders[j]

C15_LaterEventWins == [][C15_Step]_vars

\* C15 witness: the worker's receive request is still in flight, and the
\* local order is again the table's row, DISPATCHED with the remote
\* administrator's entry: the event has replaced the optimistic change.
C15_Witness ==
  /\ channel = <<>>
  /\ \E w \in writes :
       /\ w.origin = "receive"
       /\ Find(orders, w.id) = Find(db, w.id)
       /\ Find(orders, w.id).status = "DISPATCHED"
       /\ Len(Find(orders, w.id).history) = 2

\* The number of times x occurs in the list.
Count(list, x) == Cardinality({i \in DOMAIN list : list[i] = x})

\* The two lists hold the same records, each as many times.
SameRecords(a, b) ==
  /\ Len(a) = Len(b)
  /\ \A x \in Range(a) \cup Range(b) : Count(a, x) = Count(b, x)

\* C16 as stated: for two events about different ids, applying them in
\* either order yields the same local collection.
C16_Step ==
  (EventApplied /\ Len(channel) >= 2 /\ EventId(channel[1]) # EventId(channel[2])) =>
    ApplyEvent(orders', channel[2])
      = ApplyEvent(ApplyEvent(orders, channel[2]), channel[1])

C16_OrderIndependent == [][C16_Step]_vars

\* C16 amended: for two events about different ids, either order yields
\* the same records; the collection itself is the same unless both events
\* are inserts, which end up in the reverse of their arrival order.
C16_AmendedStep ==
  (EventApplied /\ Len(channel) >= 2 /\ EventId(channel[1]) # EventId(channel[2])) =>
    LET thisOrder  == ApplyEvent(orders', channel[2])
        otherOrder == ApplyEvent(ApplyEvent(orders, channel[2]), channel[1])
    IN  /\ SameRecords(thisOrder, otherOrder)
        /\ ( channel[1].eventType # "INSERT" \/ channel[2].eventType # "INSERT" )
             => thisOrder = otherOrder
        /\ ( channel[1].eventType = "INSERT" /\ channel[2].eventType = "INSERT" )
             => /\ SubSeq(thisOrder, 1, 2) = <<channel[2].new, channel[1].new>>
                /\ SubSeq(otherOrder, 1, 2) = <<channel[1].new, channel[2].new>>

C16_SameRecordsEitherOrder == [][C16_AmendedStep]_vars

\* C16 witness: two inserts about different ids have been applied to an
\* empty collection: the later one is first.
C16_Witness ==
  /\ channel = <<>>
  /\ Len(orders) = 2
  /\ orders[1].id # orders[2].id
  /\ orders[1].deadline = NoDeadline /\ orders[2].deadline = NoDeadline

(***************************************************************************)
(* Batch reassignment (ResultsView.confirmBatchTransfer): an administrator *)
(* has selected some of the listed orders and confirms the dialog.         *)
(***************************************************************************)
MaxBatch == 5

BatchIds == 1 .. MaxBatch

\* The collection, newest first, as loaded from the table.
BatchCollection ==
  [i \in 1 .. MaxBatch |-> ImportedOrder(MaxBatch + 1 - i, "Zhang", NoDeadline)]

\* The team chosen in the dialog (blank: the confirm button does nothing)
\* and the optional worker name.
BatchTeams == {"", "T2"}

BatchWorkerNames == {"", "Li"}

\* The patch of one selected order.
BatchPatch(targetOrder, user, batchTeam, batchWorkerName) ==
  LET newName == IF batchWorkerName # "" THEN batchWorkerName
                 ELSE IF targetOrder.id # NoOrder.id THEN targetOrder.userName
                 ELSE ""
  IN  [team |-> batchTeam, userName |-> newName,
       history |-> Append(HistoryOf(targetOrder),
                          HistoryEntry(user.name, "batch", <<batchTeam, newName>>))]

\* confirmBatchTransfer up to its await: onUpdateOrder is called for every
\* selected id, each call patching its order locally and sending its
\* request.
confirmBatchTransfer ==
  /\ Running
  /\ currentUser.role = "ADMIN"
  /\ batch.pc = "selected"
  /\ \E batchTeam \in BatchTeams, batchWorkerName \in BatchWorkerNames :
       IF batchTeam = ""
       THEN UNCHANGED <<orders, writes, batch>>
       ELSE /\ orders' =
                 [i \in DOMAIN orders |->
                    IF orders[i].id \in batch.ids
                    THEN LocalApply(orders[i],
                                    BatchPatch(Find(orders, orders[i].id), currentUser,
                                               batchTeam, batchWorkerName))
                    ELSE orders[i]]
            /\ writes' = writes \cup
                 {Write(id, BatchPatch(Find(orders, id), currentUser,
                                       batchTeam, batchWorkerName),
                        currentUser, "batch") : id \in batch.ids}
            /\ batch' = [batch EXCEPT !.pc = "awaiting",
                                      !.batchTeam = batchTeam,
                                      !.batchWorkerName = batchWorkerName,
                                      !.outcome = [id \in batch.ids |-> "pending"]]
  /\ UNCHANGED <<cmpVars, pageVars, camera, now, ops, currentUser, isOnline, loading,
                 completionTarget, sub, alert, db, channel>>

\* A rejection of Promise.all leaves the other requests running.
AfterRejectionCancels(pending) == {}

AfterRejection(pending) == pending

\* updates.length, the number in the success message.
ReportedCount(outcome) == Cardinality(DOMAIN outcome)

\* One request of the batch is answered: with success (the row is patched
\* and published), with an error (handleOrderUpdate logs it and resolves)
\* or with an exception (the promise of handleOrderUpdate rejects).  Then,
\* in the same turn, Promise.all: it rejects on the first exception
\* (catch: the error alert), and resolves when every promise has resolved
\* (the selection is cleared, the dialog closed, the success alert shown).
BatchUpdateResolved ==
  /\ Running
  /\ \E w \in writes, result \in {"ok", "error", "thrown"} :
       /\ w.origin = "batch"
       /\ IF result = "ok" /\ Find(db, w.id).id # NoOrder.id
          THEN LET row == RemoteApply(Find(db, w.id), w.updates)
               IN  /\ db' = ReplaceById(db, w.id, row)
                   /\ channel' = Append(channel, UpdateEvent(row))
          ELSE UNCHANGED <<db, channel>>
       /\ LET settled  == [batch.outcome EXCEPT ![w.id] = result]
              rejected == result = "thrown" /\ batch.pc = "awaiting"
              allDone  == \A id \in batch.ids : settled[id] \in {"ok", "error"}
          IN  /\ writes' = IF rejected THEN AfterRejection(writes \ {w})
                           ELSE writes \ {w}
              /\ IF rejected
                 THEN /\ alert' = "BATCH_ERROR"
                      /\ batch' = [batch EXCEPT !.outcome = settled,
                                                !.pc = "failed"]
                 ELSE IF batch.pc = "awaiting" /\ allDone
                 THEN /\ alert' = "BATCH_DONE"
                      /\ batch' = [batch EXCEPT !.outcome = settled,
                                                !.pc = "done",
                                                !.reported = ReportedCount(settled)]
                 ELSE /\ alert' = alert
                      /\ batch' = [batch EXCEPT !.outcome = settled]
  /\ UNCHANGED <<cmpVars, pageVars, camera, now, ops, currentUser, orders, isOnline, loading,
                 completionTarget, sub>>

InitBatch ==
  /\ \E ids \in SUBSET BatchIds :
       /\ ids # {}
       /\ batch = [NoBatch EXCEPT !.pc = "selected", !.ids = ids]
  /\ orders = BatchCollection
  /\ db = BatchCollection
  /\ currentUser = AdminUser
  /\ target = <<>>
  /\ candidate = <<>>
  /\ cmpResult = NotCompared
  /\ now = 1
  /\ ops = 0
  /\ isOnline = TRUE
  /\ loading = FALSE
  /\ completionTarget = NoOrder
  /\ sub = IdleSub
  /\ alert = ""
  /\ channel = <<>>
  /\ writes = {}
  /\ InitPage

NextBatch ==
  \/ confirmBatchTransfer
  \/ BatchUpdateResolved
  \/ OnRemoteEvent
  \/ DismissAlert

SpecBatch == InitBatch /\ [][NextBatch]_vars

(***************************************************************************)
(* Properties of the batch reassignment (under SpecBatch).                 *)
(***************************************************************************)
\* The selected ids whose mutation succeeded.
Succeeded == {id \in batch.ids : batch.outcome[id] = "ok"}

\* C17: the count the batch reports is the number of ids whose mutation
\* succeeded (4 when one of 5 selected ids fails).
C17_ReportsSucceeded ==
  batch.pc = "done" => batch.reported = Cardinality(Succeeded)

\* C17 witness: five ids were selected, the mutation of one failed and the
\* other four succeeded: the success message says 5.
C17_Witness ==
  /\ batch.pc = "done"
  /\ alert = "BATCH_DONE"
  /\ Cardinality(batch.ids) = 5
  /\ Cardinality(Succeeded) = 4
  /\ \E id \in batch.ids :
       batch.outcome[id] = "error" /\ Find(db, id).team = "T1"
  /\ batch.reported = 5

\* C18: the confirmation issues a request for every selected id and patches
\* each of them locally, leaving the other orders alone; no request is ever
\* dropped for the failure of another; the answer to one request changes
\* only the row and the outcome of its own id and rolls nothing back.
C18_Step ==
  /\ (batch.pc = "selected" /\ batch'.pc = "awaiting") =>
       /\ \A id \in batch.ids :
            /\ \E w \in Issued : w.id = id /\ w.origin = "batch"
            /\ Find(orders', id).team = batch'.batchTeam
       /\ \A i \in DOMAIN orders :
            orders[i].id \notin batch.ids => orders'[i] = orders[i]
  /\ \A id \in DOMAIN batch'.outcome :
       batch'.outcome[id] = "pending" <=>
         (\E w \in writes' : w.id = id /\ w.origin = "batch")
  /\ (writes' # writes /\ writes' \subseteq writes) =>
       \E w \in writes :
         /\ writes' = writes \ {w}
         /\ orders' = orders
         /\ \A i \in DOMAIN db : db[i].id # w.id => db'[i] = db[i]
         /\ \A id \in batch.ids \ {w.id} : batch'.outcome[id] = batch.outcome[id]
  /\ batch.pc \in {"awaiting", "failed", "done"} =>
       \A id \in batch.ids :
         /\ Find(orders', id).team = batch.batchTeam
         /\ batch.outcome[id] = "ok" => Find(db', id).team = batch.batchTeam

C18_BatchIndependent == [][C18_Step]_vars

\* C18 witness: every request is answered; one ended in an exception and
\* one in an error, their rows are untouched in the table and still
\* patched locally; a third succeeded and its row is patched.
C18_Witness ==
  /\ writes = {}
  /\ batch.pc = "failed"
  /\ \E a \in batch.ids, b \in batch.ids, c \in batch.ids :
       /\ batch.outcome[a] = "thrown" /\ Find(db, a).team = "T1"
       /\ batch.outcome[b] = "error" /\ Find(db, b).team = "T1"
       /\ batch.outcome[c] = "ok" /\ Find(db, c).team = "T2"
       /\ Find(orders, a).team = "T2" /\ Find(orders, b).team = "T2"

(***************************************************************************)
(* The page while the cloud is unreachable: the load may fail, the channel *)
(* reports its status, another client imports an order into the table,     *)
(* and the worker goes on receiving orders.                                *)
(***************************************************************************)
\* The callback of subscribe() on a status of the channel.
SubscribeStatus ==
  /\ Running
  /\ \E status \in {"SUBSCRIBED", "CHANNEL_ERROR"} :
       isOnline' = (status = "SUBSCRIBED")
  /\ UNCHANGED <<cmpVars, pageVars, camera, batch, now, ops, currentUser, orders, loading,
                 completionTarget, sub, alert, db, channel, writes>>

\* Another client's handleMappingConfirm: the insert succeeds and the table
\* publishes the new row.
ImportedId == 2

RemoteImport ==
  /\ Running
  /\ ops < MaxOps
  /\ ops' = ops + 1
  /\ Find(db, ImportedId) = NoOrder
  /\ \E deadline \in {NoDeadline, now} :
       LET row == ImportedOrder(ImportedId, "Zhang", deadline)
       IN  /\ db' = <<row>> \o db
           /\ channel' = Append(channel, InsertEvent(row))
  /\ UNCHANGED <<cmpVars, pageVars, camera, batch, now, currentUser, orders, isOnline, loading,
                 completionTarget, sub, alert, writes>>

InitOffline == InitSys /\ InitCmpIdle

NextOffline ==
  \/ FetchOrdersResolved
  \/ SubscribeStatus
  \/ RemoteImport
  \/ OnRemoteEvent
  \/ handleLogin
  \/ handleReceive
  \/ UpdateResolved
  \/ Tick
  \/ DismissAlert

SpecOffline == InitOffline /\ [][NextOffline]_vars

\* The step in which fetchOrders ends with an error.
FetchFailed == loading /\ ~loading' /\ ~isOnline'

\* C19: a failed load leaves the local collection, the session and the
\* page as they were, sets the indicator offline and clears loading (which
\* is never set again); and a mutation issued while the page is offline
\* after the load is still applied locally.
C19_Step ==
  /\ FetchFailed =>
       orders' = orders /\ currentUser' = currentUser /\ alert' = alert
  /\ ~loading => ~loading'
  /\ (~loading /\ ~isOnline) =>
       \A w \in Issued :
         \A f \in DOMAIN w.updates :
           ~IsUndefined(f, w.updates[f]) => Find(orders', w.id)[f] = w.updates[f]

C20_Step == WriteFailed => (orders' = orders /\ isOnline' = FALSE)

C20_FailedWriteGoesOffline == [][C20_Step]_vars

\* C20 witness: the worker's receive request has failed and nothing is
\* pending; the local order is RECEIVED, the table holds it as imported,
\* and the indicator still says online.
C20_Witness ==
  /\ ~loading
  /\ isOnline
  /\ writes = {}
  /\ channel = <<>>
  /\ \E i \in DOMAIN orders :
       /\ orders[i].status = "RECEIVED"
       /\ Find(db, orders[i].id).status = "DISPATCHED"

(***************************************************************************)
(* The import (App.handleMappingConfirm): the rows of the uploaded sheet   *)
(* become orders.  rawData holds the sheet, its header row first; a cell   *)
(* is a text or is empty (null), and a row may be shorter than the header. *)
(***************************************************************************)
MaxRows == 3

\* The imports of one run (each needs the sheet uploaded again).
MaxImports == 1

NullCell == [null |-> TRUE, text |-> <<>>]

TextCell(t) == [null |-> FALSE, text |-> t]

\* String.prototype.trim
RECURSIVE TrimLeft(_)
TrimLeft(t) == IF t # <<>> /\ Head(t) = " " THEN TrimLeft(Tail(t)) ELSE t

RECURSIVE TrimRight(_)
TrimRight(t) ==
  IF t # <<>> /\ t[Len(t)] = " " THEN TrimRight(SubSeq(t, 1, Len(t) - 1)) ELSE t

trim(t) == TrimRight(TrimLeft(t))

\* parseInt of the one-digit column index the wizard stores.
parseInt(idxStr) ==
  CHOOSE n \in 0 .. 9 :
    <<"0", "1", "2", "3", "4", "5", "6", "7", "8", "9">>[n + 1] = idxStr[1]

\* getValue: the cell of the mapped column as a trimmed text, '' for a
\* missing or empty cell (row[idx] with idx counted from 0).
getValue(row, idxStr) ==
  LET idx == parseInt(idxStr) + 1
  IN  IF idx \in DOMAIN row /\ ~row[idx].null THEN trim(row[idx].text) ELSE <<>>

\* The mapping the wizard confirms: the task name from the first column,
\* the other four fields from the second.
Mapping ==
  [taskName |-> <<"0">>, businessNo |-> <<"1">>, team |-> <<"1">>,
   userName |-> <<"1">>, serialCode |-> <<"1">>]

\* if (!taskName) return null
DroppedNever(taskName) == FALSE

Dropped(taskName) == taskName = <<>>

\* generateId(): an id no order has yet; the k-th created order gets the
\* k-th number after the ids known to the page and the table.
UsedIds == {orders[i].id : i \in DOMAIN orders} \cup {db[i].id : i \in DOMAIN db}

FirstFreeId == IF UsedIds = {} THEN 1 ELSE 1 + CHOOSE m \in UsedIds : \A n \in UsedIds : n <= m

\* dataRows.map(...).filter(o => o !== null), the rows taken in order;
\* made are the orders built so far.
RECURSIVE newOrdersFrom(_, _, _, _)
newOrdersFrom(dataRows, mapping, deadline, made) ==
  IF dataRows = <<>> THEN made
  ELSE LET row      == Head(dataRows)
           taskName == getValue(row, mapping.taskName)
       IN  IF Dropped(taskName)
           THEN newOrdersFrom(Tail(dataRows), mapping, deadline, made)
           ELSE newOrdersFrom(Tail(dataRows), mapping, deadline,
                  Append(made,
                    NewOrder(FirstFreeId + Len(made), taskName,
                             getValue(row, mapping.businessNo),
                             getValue(row, mapping.team),
                             getValue(row, mapping.userName),
                             getValue(row, mapping.serialCode),
                             deadline)))

\* rawData.slice(1)
Slice1(data) == IF data = <<>> THEN <<>> ELSE Tail(data)

newOrders(mapping, deadline) ==
  newOrdersFrom(Slice1(rawData), mapping, deadline, <<>>)

\* The cloud variant (behind the mapping wizard, which the loading overlay
\* covers while a load is in progress): the batch insert into the table.  On success the
\* table holds the new rows and publishes an INSERT event for each; on an
\* error the new orders are put in front of the local collection.  Either
\* way an alert tells the outcome.
handleMappingConfirm ==
  /\ Running
  /\ ~loading
  /\ currentUser.role = "ADMIN"
  /\ rawData # <<>>
  /\ ops < MaxImports
  /\ ops' = ops + 1
  /\ \E deadline \in {NoDeadline, now + 1}, ok \in BOOLEAN :
       LET new == newOrders(Mapping, deadline)
       IN  IF ok
           THEN /\ db' = new \o db
                /\ channel' = channel \o [i \in DOMAIN new |-> InsertEvent(new[i])]
                /\ alert' = "IMPORTED"
                /\ orders' = orders
           ELSE /\ orders' = new \o orders
                /\ alert' = "IMPORT_LOCAL_ONLY"
                /\ UNCHANGED <<db, channel>>
  /\ UNCHANGED <<cmpVars, pageVars, camera, batch, now, currentUser, isOnline,
                 loading, completionTarget, sub, writes>>

\* The sheets: a header and up to MaxRows data rows; the first cell of a
\* row holds the task name, the second (which may be missing) the rest.
TaskTexts == {<<>>, <<" ">>, <<"A">>, <<"C">>, <<" ", "A", " ">>}

SheetRows ==
  LET first == {NullCell} \cup {TextCell(t) : t \in TaskTexts}
  IN  {<<TextCell(<<"A">>)>>} \cup {<<c, TextCell(<<" ", "Z">>)>> : c \in first}

HeaderRow == <<TextCell(<<"t">>), TextCell(<<"n">>)>>

RECURSIVE RowsUpTo(_)
RowsUpTo(n) ==
  IF n = 0 THEN {<<>>}
  ELSE LET shorter == RowsUpTo(n - 1)
       IN  shorter \cup {Append(rows, r) : rows \in shorter, r \in SheetRows}

InitImport ==
  /\ rawData \in {<<HeaderRow>> \o rows : rows \in RowsUpTo(MaxRows)}
  /\ storage = NoSaved
  /\ camera = NoCamera
  /\ batch = NoBatch
  /\ InitCmpIdle
  /\ now = 1
  /\ ops = 0
  /\ currentUser = AdminUser
  /\ orders = <<>>
  /\ isOnline = TRUE
  /\ loading = FALSE
  /\ completionTarget = NoOrder
  /\ sub = IdleSub
  /\ alert = ""
  /\ db = <<>>
  /\ channel = <<>>
  /\ writes = {}

NextImport ==
  \/ handleMappingConfirm
  \/ OnRemoteEvent
  \/ DismissAlert

SpecImport == InitImport /\ [][NextImport]_vars

\* The orders of `after` whose id `before` does not hold, in their order.
Ids(list) == {list[i].id : i \in DOMAIN list}

Created(before, after) == SelectSeq(after, LAMBDA o : o.id \notin Ids(before))

\* C21: every order an import creates (in the table, or locally when the
\* insert fails) has the status DISPATCHED, a history of exactly the one
\* import entry, and neither receivedAt nor completedAt.
AsImported(o) ==
  /\ o.status = "DISPATCHED"
  /\ Len(o.history) = 1
  /\ o.history[1].action = "import"
  /\ o.receivedAt = 0
  /\ o.completedAt = 0

C21_Step ==
  /\ \A i \in DOMAIN Created(db, db') : AsImported(Created(db, db')[i])
  /\ \A i \in DOMAIN Created(orders, orders') : AsImported(Created(orders, orders')[i])

C21_ImportedStartsDispatched == [][C21_Step]_vars

\* C21 witness: an import with a deadline has put two orders in the table
\* and the first of them has reached the page by its INSERT event.
C21_Witness ==
  /\ Len(db) >= 2
  /\ Len(orders) = 1
  /\ \A i \in DOMAIN db : AsImported(db[i]) /\ db[i].deadline # NoDeadline
  /\ AsImported(orders[1])

\* C22: an import creates one order per data row whose trimmed task name is
\* not empty, in row order, with distinct ids, and none for the other rows;
\* the rows A, (empty), C give two orders.
TaskNames(rows) == [i \in DOMAIN rows |-> getValue(rows[i], Mapping.taskName)]

KeptNames(rows) == SelectSeq(TaskNames(rows), LAMBDA t : t # <<>>)

NamesOf(list) == [i \in DOMAIN list |-> list[i].taskName]

RowPerOrder(new) ==
  /\ NamesOf(new) = KeptNames(Tail(rawData))
  /\ \A i \in DOMAIN new, j \in DOMAIN new : i # j => new[i].id # new[j].id

C22_Step ==
  /\ db' # db => RowPerOrder(Created(db, db'))
  /\ (db' = db /\ orders' # orders /\ channel' = channel) =>
       RowPerOrder(Created(orders, orders'))

C22_OneOrderPerNamedRow == [][C22_Step]_vars

\* C22 witness: the sheet has the three rows A, (empty), C and the import
\* has put exactly the orders A and C, in this order, in the table.
C22_Witness ==
  /\ Len(rawData) = 4
  /\ TaskNames(Tail(rawData)) = << <<"A">>, <<>>, <<"C">> >>
  /\ NamesOf(db) = << <<"A">>, <<"C">> >>
  /\ ops = 1

(***************************************************************************)
(* The worker's transitions (under Spec).                                  *)
(***************************************************************************)
\* The fields of an order other than those in `changed` are the same in
\* both records.
SameExcept(before, after, changed) ==
  \A f \in DOMAIN before \ changed : after[f] = before[f]

GrownByOne(before, after) ==
  /\ Len(after.history) = Len(before.history) + 1
  /\ IsPrefix(before.history, after.history)

\* C23: when the receive request is issued, the session is the assigned
\* worker, the order was DISPATCHED or PENDING and not past its deadline,
\* and the local order becomes RECEIVED with receivedAt set and one more
\* history entry, every other field and every other order being unchanged;
\* the request, when it succeeds, writes only these three columns.
C23_Step ==
  /\ \A w \in Issued :
       w.origin = "receive" =>
         LET before == Find(orders, w.id)
             after  == Find(orders', w.id)
         IN  /\ currentUser.role = "WORKER"
             /\ before.userName = currentUser.name
             /\ before.status \in {"DISPATCHED", "PENDING"}
             /\ ~Expired(before.deadline)
             /\ after.status = "RECEIVED"
             /\ after.receivedAt = now /\ after.receivedAt # 0
             /\ GrownByOne(before, after)
             /\ after.history[Len(after.history)] =
                  HistoryEntry(currentUser.name, "receive", "")
             /\ SameExcept(before, after, {"status", "receivedAt", "history"})
             /\ \A i \in DOMAIN orders :
                  orders[i].id # w.id => orders'[i] = orders[i]
             /\ Len(orders') = Len(orders)
  /\ \A w \in writes \ writes' :
       (w.origin = "receive" /\ db' # db) =>
         /\ Find(db', w.id).status = "RECEIVED"
         /\ Find(db', w.id).receivedAt = w.updates.receivedAt
         /\ SameExcept(Find(db, w.id), Find(db', w.id),
                       {"status", "receivedAt", "history"})

C23_ReceiveTransition == [][C23_Step]_vars

\* C23 witness: the administrator has cleared the deadline, and worker
\* Zhang has then received the order: it is RECEIVED locally and in the
\* table, with the three entries import, deadline, receive.
C23_Witness ==
  /\ writes = {}
  /\ channel = <<>>
  /\ currentUser = WorkerUser
  /\ \E i \in DOMAIN orders :
       /\ orders[i].deadline = NoDeadline
       /\ orders[i].status = "RECEIVED"
       /\ orders[i].receivedAt # 0
       /\ Len(orders[i].history) = 3
       /\ orders[i].history[3] = HistoryEntry("Zhang", "receive", "")
       /\ Find(db, orders[i].id) = orders[i]

\* The completion payload of an order.
PayloadFields ==
  {"returnReason", "completionRemark", "remarkImages", "completionPhoto",
   "completionAudio"}

\* C24: when the resubmission of a COMPLETED order is written, the order
\* stays COMPLETED, every payload field holds what the new submission
\* holds (nothing, where the submission has no photo or no recording),
\* completedAt is the time of the submission and the last history entry
\* is the amendment.
C24_Step ==
  \A w \in writes \ writes' :
    (w.origin = "submit" /\ db' # db /\ Find(db, w.id).status = "COMPLETED") =>
      LET before    == Find(db, w.id)
          after     == Find(db', w.id)
          submitted == LocalApply(before, w.updates)
      IN  /\ after.status = "COMPLETED"
          /\ \A f \in PayloadFields : after[f] = submitted[f]
          /\ after.completedAt = w.updates.completedAt
          /\ after.history[Len(after.history)].action = "amend"

C24_ResubmitOverwrites == [][C24_Step]_vars

\* C24 witness: the order was completed with a verified photo and then
\* resubmitted with an attachment and no photo: the table holds the
\* amendment, pending review, and still the photo of the first submission,
\* which the local order no longer has.
C24_Witness ==
  /\ writes = {}
  /\ \E i \in DOMAIN db :
       /\ db[i].status = "COMPLETED"
       /\ db[i].auditStatus = "PENDING"
       /\ db[i].history[Len(db[i].history)].action = "amend"
       /\ db[i].remarkImages # <<>>
       /\ db[i].completionPhoto # NoPhoto
       /\ Find(orders, db[i].id).id = db[i].id
       /\ Find(orders, db[i].id).completionPhoto = NoPhoto

(***************************************************************************)
(* The administrator's page: the collection holds two orders, each         *)
(* DISPATCHED, RECEIVED or COMPLETED, both with the deadline 1, and some   *)
(* of them are selected for a batch reassignment.  The page has one single *)
(* edit left besides the batch.                                            *)
(***************************************************************************)
AdminIds == {1, 2}

ReceivedOrder(id) ==
  LET imported == ImportedOrder(id, "Zhang", 1)
  IN  RemoteApply(imported, ReceivePatch(imported, WorkerUser))

\* Completed on the attachment-only path, awaiting review.
CompletedOrder(id) ==
  RemoteApply(ReceivedOrder(id),
    CompletionPatch([IdleSub EXCEPT !.completionTarget = ReceivedOrder(id),
                                    !.user = WorkerUser,
                                    !.returnReason = "NOBODY_HOME",
                                    !.remark = RemarkText,
                                    !.remarkImages = <<Attachment>>,
                                    !.finalVerification = NoPhotoVerification,
                                    !.newAuditStatus = AuditStatusFor(FALSE)]))

InStatus(id) ==
  {ImportedOrder(id, "Zhang", 1), ReceivedOrder(id), CompletedOrder(id)}

AdminCollections == {<<second, first>> : second \in InStatus(2), first \in InStatus(1)}

InitAdmin ==
  /\ now = 1
  /\ ops = MaxOps - 1
  /\ currentUser = AdminUser
  /\ orders \in AdminCollections
  /\ db = orders
  /\ \E ids \in SUBSET AdminIds :
       /\ ids # {}
       /\ batch = [NoBatch EXCEPT !.pc = "selected", !.ids = ids]
  /\ isOnline = TRUE
  /\ loading = FALSE
  /\ completionTarget = NoOrder
  /\ sub = IdleSub
  /\ alert = ""
  /\ channel = <<>>
  /\ writes = {}
  /\ InitPage
  /\ InitCmpIdle

NextAdmin ==
  \/ confirmTransfer
  \/ handleSaveDeadline
  \/ confirmBatchTransfer
  \/ UpdateResolved
  \/ BatchUpdateResolved
  \/ OnRemoteEvent
  \/ Tick
  \/ DismissAlert

SpecAdmin == InitAdmin /\ [][NextAdmin]_vars

\* The fields an administrator's operation sets, next to the history.
AdminOrigins == {"transfer", "deadline", "batch"}

ChangedBy(origin) ==
  CASE origin = "transfer" -> {"userName", "history"}
    [] origin = "deadline" -> {"deadline", "history"}
    [] origin = "batch"    -> {"userName", "team", "history"}

\* C25: a reassignment (single or batch) or a deadline edit is issued by an
\* administrator, whatever the status and the deadline of the order; it
\* changes only userName (and team for the batch) or deadline and adds one
\* history entry, locally and in the table, for the order it names only.
C25_Step ==
  /\ \A w \in Issued :
       w.origin \in AdminOrigins =>
         LET before == Find(orders, w.id)
             after  == Find(orders', w.id)
         IN  /\ currentUser.role = "ADMIN"
             /\ SameExcept(before, after, ChangedBy(w.origin))
             /\ GrownByOne(before, after)
             /\ DOMAIN w.updates = ChangedBy(w.origin)
  /\ Issued # {} =>
       \A i \in DOMAIN orders :
         orders[i].id \notin {w.id : w \in Issued} => orders'[i] = orders[i]
  /\ \A w \in writes \ writes' :
       (w.origin \in AdminOrigins /\ db' # db) =>
         /\ SameExcept(Find(db, w.id), Find(db', w.id), ChangedBy(w.origin))
         /\ \A i \in DOMAIN db : db[i].id # w.id => db'[i] = db[i]

C25_AdminEditsFrame == [][C25_Step]_vars

\* C25 witness: after the deadline has passed, the deadline of the
\* COMPLETED order was cleared and the RECEIVED order was reassigned to
\* team T2 and Li by the batch, in the table as on the page; status, times
\* and payload are as before.
C25_Witness ==
  /\ now = 2
  /\ writes = {}
  /\ channel = <<>>
  /\ batch.pc = "done"
  /\ LET done == Find(orders, 2)
         recv == Find(orders, 1)
     IN  /\ done.deadline = NoDeadline
         /\ done.history[Len(done.history)].action = "deadline"
         /\ done.status = "COMPLETED" /\ done.auditStatus = "PENDING"
         /\ done.remarkImages # <<>>
         /\ done.receivedAt = 1 /\ done.completedAt = 1
         /\ done.userName = "Zhang" /\ done.team = "T1"
         /\ recv.team = "T2" /\ recv.userName = "Li"
         /\ recv.status = "RECEIVED" /\ recv.receivedAt = 1
         /\ recv.deadline = 1
         /\ Find(db, 2) = done
         /\ Find(db, 1) = recv

\* An attempt that the guards of its handler refuse: a submission that
\* does not start (deadline passed, ADMIN session, no reason, no proof), a
\* verification that fails or errors, a receive after the deadline, a
\* reassignment to a blank name.
RefusedSubmit == submitCompletion /\ sub' = sub

RefusedVerification == VerificationReturned /\ sub' = IdleSub

RefusedReceive == handleReceive /\ writes' = writes

RefusedTransfer == confirmTransfer /\ writes' = writes

KeepsTimes(before, after) ==
  \A i \in DOMAIN before :
    LET o == before[i]
        n == Find(after, o.id)
    IN  n.id = o.id =>
          /\ o.receivedAt # 0 => n.receivedAt = o.receivedAt
          /\ o.completedAt # 0 => n.completedAt # 0

C27_Step == KeepsTimes(orders, orders') /\ KeepsTimes(db, db')

C27_TimesSetOnce == [][C27_Step]_vars

\* C27 witness: the worker has received the order (its request failed),
\* the administrator has then edited it in the table, and the event has
\* put the table's row on the page: the local order has no receivedAt any
\* more and is DISPATCHED again.
C27_Witness ==
  /\ currentUser = WorkerUser
  /\ ops = 2
  /\ writes = {}
  /\ channel = <<>>
  /\ Len(db) = 1 /\ Len(orders) = 1
  /\ db[1].status = "DISPATCHED"
  /\ Len(db[1].history) = 2
  /\ orders[1] = db[1]
  /\ orders[1].receivedAt = 0

(***************************************************************************)
(* performAICheck on its own: a target serial and the list of candidates   *)
(* the vision service returned are drawn, and the check is applied.  Here  *)
(* `candidate` holds the whole list.                                       *)
(***************************************************************************)
MaxCands == 2

CheckLen == 2

RECURSIVE ListsUpTo(_, _)
ListsUpTo(S, n) ==
  IF n = 0 THEN {<<>>}
  ELSE LET shorter == ListsUpTo(S, n - 1)
       IN  shorter \cup {Append(l, x) : l \in shorter, x \in S}

\* The serial of the spec's example with what is read for it, and a list
\* whose second candidate is the one that matches.
ExampleChecks ==
  { <<Serial, << <<"O", "8", "1", "2", "3", "4", "5">> >> >>,
    <<Serial, << <<"7", "8">>, <<"0", "8", "1", "2", "3", "4", "5">> >> >> }

InitCheck ==
  /\ \E p \in (StringsUpTo(CheckLen) \X ListsUpTo(StringsUpTo(CheckLen), MaxCands))
                \cup ExampleChecks :
       target = p[1] /\ candidate = p[2]
  /\ cmpResult = NotCompared
  /\ now = 1
  /\ ops = 0
  /\ currentUser = NoUser
  /\ orders = <<>>
  /\ isOnline = TRUE
  /\ loading = FALSE
  /\ completionTarget = NoOrder
  /\ sub = IdleSub
  /\ alert = ""
  /\ db = <<>>
  /\ channel = <<>>
  /\ writes = {}
  /\ batch = NoBatch
  /\ InitPage

Check ==
  /\ cmpResult = NotCompared
  /\ cmpResult' = performAICheck(candidate, target)
  /\ UNCHANGED <<target, candidate, now, ops, currentUser, orders, isOnline,
                 loading, completionTarget, sub, alert, db, channel, writes,
                 batch, rawData, storage, camera>>

NextCheck == Check

SpecCheck == InitCheck /\ [][NextCheck]_vars

Checked == cmpResult # NotCompared

Matching == {i \in DOMAIN candidate : strictCompare(target, candidate[i]).match}

FirstMatching == CHOOSE i \in Matching : \A j \in Matching : i <= j

\* C28: the check answers match exactly when some candidate matches the
\* target under strictCompare, and then reports the first such candidate
\* as detected; with no candidate it answers a non-match with the
\* nothing-detected message.
C28_FirstMatchReported ==
  Checked =>
    /\ cmpResult.match <=> Matching # {}
    /\ cmpResult.match => cmpResult.detected = candidate[FirstMatching]
    /\ candidate = <<>> =>
         /\ ~cmpResult.match
         /\ cmpResult.detected = NothingDetected
         /\ cmpResult.message.reason.kind = "nothing"

\* C28 witness: the order has no serial, the service returned a text and
\* an empty string; the empty string matches, and the check answers a
\* match with the first candidate, which does not match, as detected.
C28_Witness ==
  /\ Checked
  /\ target = <<>>
  /\ Len(candidate) = 2
  /\ candidate[2] = <<>>
  /\ Matching = {2}
  /\ cmpResult.match
  /\ cmpResult.detected = candidate[1]
  /\ ~strictCompare(target, cmpResult.detected).match

\* The candidates that fail for another reason than their length.
NonLength ==
  {i \in DOMAIN candidate :
     LET result == strictCompare(target, candidate[i])
     IN  ~result.match /\ result.reason.kind # "length"}

\* How far a candidate is from the target: the positions at which the
\* normalized strings differ, and the characters one has more than the
\* other.
Distance(cand) ==
  LET normTarget == normalizeString(target)
      normCand   == normalizeString(cand)
      length     == Min(Len(normTarget), Len(normCand))
  IN  Cardinality({i \in 1 .. length : normTarget[i] # normCand[i]})
        + AbsDiff(Len(normTarget), Len(normCand))

\* C32: when no candidate matches, the check reports as detected the
\* closest of the candidates that fail for another reason than their
\* length, with that candidate's reason in the message; when every
\* candidate fails on its length, it reports the first candidate.
C32_ClosestFailureReported ==
  (Checked /\ candidate # <<>> /\ Matching = {}) =>
    IF NonLength = {}
    THEN cmpResult.detected = candidate[1]
    ELSE \E i \in NonLength :
           /\ cmpResult.detected = candidate[i]
           /\ cmpResult.message.reason = strictCompare(target, candidate[i]).reason
           /\ \A j \in NonLength : Distance(candidate[i]) <= Distance(candidate[j])

\* C32 witness: two candidates of the right length fail, the first on
\* both characters, the second on one; the check reports the first.
C32_Witness ==
  /\ Checked
  /\ Matching = {}
  /\ NonLength = {1, 2}
  /\ Distance(candidate[1]) = 2
  /\ Distance(candidate[2]) = 1
  /\ cmpResult.detected = candidate[1]
  /\ cmpResult.message.reason = strictCompare(target, candidate[1]).reason

(***************************************************************************)
(* The capture UI of the completion dialog (startCamera, stopCamera,       *)
(* takePhoto), with the worker's dialog and submission around it.          *)
(***************************************************************************)
MaxStreams == 2

\* canEditCompletion
canEditCompletion ==
  /\ completionTarget # NoOrder
  /\ completionTarget.status \in {"RECEIVED", "COMPLETED"}
  /\ currentUser.role = "WORKER"
  /\ ~Expired(completionTarget.deadline)

\* startCamera up to its await: the button is shown while the dialog can
\* be edited, the camera is closed and no photo is held (a held photo is
\* dropped by the retake button first).
startCamera ==
  /\ Running
  /\ canEditCompletion
  /\ ~camera.isCameraOpen
  /\ camera.requested < MaxStreams
  /\ camera' = [camera EXCEPT !.isCameraOpen = TRUE,
                              !.requested = @ + 1,
                              !.pending = @ \cup {camera.requested + 1}]
  /\ UNCHANGED <<cmpVars, pageVars, batch, now, ops, currentUser, orders,
                 isOnline, loading, completionTarget, sub, alert, db, channel,
                 writes>>

\* startCamera after its await: getUserMedia has answered call k with a
\* running stream, which is attached when the <video> element is mounted,
\* or with an error (the camera error text is shown).
GetUserMediaResolved ==
  /\ Running
  /\ \E k \in camera.pending, granted \in BOOLEAN :
       camera' =
         IF granted
         THEN [camera EXCEPT !.pending = @ \ {k},
                             !.live = @ \cup {k},
                             !.srcObject = IF camera.isCameraOpen THEN k ELSE @]
         ELSE [camera EXCEPT !.pending = @ \ {k}]
  /\ UNCHANGED <<cmpVars, pageVars, batch, now, ops, currentUser, orders,
                 isOnline, loading, completionTarget, sub, alert, db, channel,
                 writes>>

\* The cancel button of the capture UI.
stopCameraClicked ==
  /\ Running
  /\ camera.isCameraOpen
  /\ camera' = stopCamera(camera)
  /\ UNCHANGED <<cmpVars, pageVars, batch, now, ops, currentUser, orders,
                 isOnline, loading, completionTarget, sub, alert, db, channel,
                 writes>>

\* takePhoto: the frame is drawn and kept as the photo of the dialog (one
\* of the photos a submission can hold), and the camera is stopped.
takePhoto ==
  /\ Running
  /\ camera.isCameraOpen
  /\ camera' = stopCamera(camera)
  /\ UNCHANGED <<cmpVars, pageVars, batch, now, ops, currentUser, orders,
                 isOnline, loading, completionTarget, sub, alert, db, channel,
                 writes>>

InitCamera ==
  /\ now = 1
  /\ ops = 0
  /\ currentUser = WorkerUser
  /\ db \in InitDb
  /\ orders = db
  /\ isOnline = TRUE
  /\ loading = FALSE
  /\ completionTarget = NoOrder
  /\ sub = IdleSub
  /\ alert = ""
  /\ channel = <<>>
  /\ writes = {}
  /\ batch = NoBatch
  /\ InitPage
  /\ InitCmpIdle

NextCamera ==
  \/ handleReceive
  \/ openCompletionModal
  \/ closeCompletionModalClicked
  \/ startCamera
  \/ GetUserMediaResolved
  \/ stopCameraClicked
  \/ takePhoto
  \/ submitCompletion
  \/ VerificationReturned
  \/ CompletionApplied
  \/ UpdateResolved
  \/ OnRemoteEvent
  \/ DismissAlert
  \/ Tick

SpecCamera == InitCamera /\ [][NextCamera]_vars

\* C29: once the capture UI is left (the camera is closed, by a photo, a
\* cancel, or the dialog closing), no stream has a running track.
C29_StreamReleased == ~camera.isCameraOpen => camera.live = {}

\* C29 witness: the worker cancelled the capture before getUserMedia
\* answered; the stream it then delivered is running, attached to nothing,
\* with the camera and the dialog closed and no call pending.
C29_Witness ==
  /\ completionTarget = NoOrder
  /\ ~camera.isCameraOpen
  /\ camera.pending = {}
  /\ camera.srcObject = 0
  /\ camera.live = {1}
  /\ camera.requested = 1

(***************************************************************************)
(* The local-only variant (App.tsx with localStorage, and the ResultsView  *)
(* it was written for): `orders` is the in-memory collection, `storage`    *)
(* the item kept under STORAGE_KEY.                                        *)
(***************************************************************************)
\* JSON.stringify drops the keys whose value is undefined, JSON.parse gives
\* back objects without them: an absent field reads as undefined again.
AbsentValue(f) ==
  CASE f \in {"receivedAt", "completedAt", "deadline"} -> 0
    [] f = "completionPhoto" -> NoPhoto
    [] f = "remarkImages" -> <<>>
    [] OTHER -> ""

OptionalFields ==
  {"receivedAt", "completedAt", "deadline", "returnReason", "completionRemark",
   "remarkImages", "completionPhoto", "completionAudio", "auditStatus"}

OrderFields == DOMAIN ImportedOrder(0, "", 0)

JSONstringify(list) ==
  [i \in DOMAIN list |->
     [f \in {g \in DOMAIN list[i] :
               ~(g \in OptionalFields /\ list[i][g] = AbsentValue(g))} |->
        list[i][f]]]

JSONparse(text) ==
  [i \in DOMAIN text |->
     [f \in OrderFields |->
        IF f \in DOMAIN text[i] THEN text[i][f] ELSE AbsentValue(f)]]

Saved(list) == [saved |-> TRUE, text |-> JSONstringify(list)]

\* localStorage.setItem throws QuotaExceededError when the item does not
\* fit; the photos, kept as base64 data URLs, are what fills it.  Here the
\* item fits as long as it holds at most StorageQuota photos.
StorageQuota == 1

PhotosIn(list) == Cardinality({i \in DOMAIN list : list[i].completionPhoto # NoPhoto})

Fits(list) == PhotosIn(list) <= StorageQuota

\* saveOrders: setOrders, then setItem; `stored` tells whether setItem
\* returned (otherwise the rest of the calling handler is not run).
saveOrders(list) ==
  /\ orders' = list
  /\ storage' = IF Fits(list) THEN Saved(list) ELSE storage

\* Local handleOrderUpdate
handleOrderUpdateLocal(orderId, updates) ==
  saveOrders([i \in DOMAIN orders |->
                IF orders[i].id = orderId THEN LocalApply(orders[i], updates)
                ELSE orders[i]])

\* Local handleMappingConfirm: the new orders are appended and saved.
handleMappingConfirmLocal ==
  /\ Running
  /\ currentUser.role = "ADMIN"
  /\ rawData # <<>>
  /\ ops < MaxImports
  /\ ops' = ops + 1
  /\ saveOrders(orders \o newOrders(Mapping, NoDeadline))
  /\ UNCHANGED <<cmpVars, rawData, camera, batch, now, currentUser, isOnline,
                 loading, completionTarget, sub, alert, db, channel, writes>>

\* filteredOrders of this ResultsView: a worker sees the orders with their
\* name.
ListedLocal(o) ==
  /\ currentUser # NoUser
  /\ completionTarget = NoOrder
  /\ currentUser.role = "WORKER" => o.userName = currentUser.name

handleReceiveLocal ==
  /\ Running
  /\ currentUser.role = "WORKER"
  /\ ops < MaxOps
  /\ ops' = ops + 1
  /\ \E i \in DOMAIN orders :
       /\ ListedLocal(orders[i])
       /\ orders[i].status \in {"DISPATCHED", "PENDING"}
       /\ handleOrderUpdateLocal(orders[i].id, ReceivePatch(orders[i], currentUser))
  /\ UNCHANGED <<cmpVars, rawData, camera, batch, now, currentUser, isOnline,
                 loading, completionTarget, sub, alert, db, channel, writes>>

openCompletionModalLocal ==
  /\ Running
  /\ \E i \in DOMAIN orders :
       /\ ListedLocal(orders[i])
       /\ \/ currentUser.role = "WORKER" /\ orders[i].status = "RECEIVED"
          \/ orders[i].status = "COMPLETED"
       /\ completionTarget' = orders[i]
  /\ UNCHANGED <<cmpVars, pageVars, camera, batch, now, ops, currentUser, orders,
                 isOnline, loading, sub, alert, db, channel, writes>>

\* The patch of this ResultsView's submitCompletion.
CompletionPatchLocal(order, user, returnReason, photoData, audioData) ==
  [status |-> "COMPLETED", completedAt |-> now,
   returnReason |-> returnReason,
   completionRemark |-> RemarkText,
   completionPhoto |-> IF photoData # NoPhoto THEN photoData ELSE UndefPhoto,
   completionAudio |-> IF audioData # "" THEN audioData ELSE UndefAudio,
   history |-> Append(HistoryOf(order), HistoryEntry(user.name, "complete", ""))]

\* submitCompletion of this ResultsView: an ADMIN session or a COMPLETED
\* order closes the dialog, a missing reason is refused; otherwise the
\* order is updated and, when saveOrders returned, the dialog closed.
submitCompletionLocal ==
  /\ Running
  /\ currentUser # NoUser
  /\ completionTarget # NoOrder
  /\ \E returnReason \in ReturnReasons,
        photoData \in RawPhotos \cup {NoPhoto, completionTarget.completionPhoto},
        audioData \in Recordings :
       IF currentUser.role = "ADMIN" \/ completionTarget.status = "COMPLETED"
       THEN /\ closeCompletionModal
            /\ UNCHANGED <<orders, storage, ops, alert>>
       ELSE IF returnReason = ""
       THEN /\ alert' = "NO_REASON"
            /\ UNCHANGED <<orders, storage, ops, completionTarget, camera>>
       ELSE LET patch == CompletionPatchLocal(completionTarget, currentUser,
                                              returnReason, photoData, audioData)
            IN  /\ ops < MaxOps
                /\ ops' = ops + 1
                /\ handleOrderUpdateLocal(completionTarget.id, patch)
                /\ alert' = alert
                /\ IF storage' = Saved(orders')
                   THEN closeCompletionModal
                   ELSE UNCHANGED <<completionTarget, camera>>
  /\ UNCHANGED <<cmpVars, rawData, batch, now, currentUser, isOnline, loading,
                 sub, db, channel, writes>>

confirmTransferLocal ==
  /\ Running
  /\ currentUser.role = "ADMIN"
  /\ \E i \in DOMAIN orders, newOwnerName \in Names \cup {""} :
       /\ ListedLocal(orders[i])
       /\ IF newOwnerName = ""
          THEN UNCHANGED <<orders, storage, ops>>
          ELSE /\ ops < MaxOps
               /\ ops' = ops + 1
               /\ handleOrderUpdateLocal(orders[i].id,
                    TransferPatch(Find(orders, orders[i].id), currentUser,
                                  newOwnerName))
  /\ UNCHANGED <<cmpVars, rawData, camera, batch, now, currentUser, isOnline,
                 loading, completionTarget, sub, alert, db, channel, writes>>

\* What localStorage holds when the page is opened: nothing, or the
\* collection saved by an earlier session; the mount effect has loaded it.
SavedCollections ==
  { << ReceivedOrder(2), ReceivedOrder(1) >>,
    << ReceivedOrder(2), ImportedOrder(1, "Zhang", 1) >> }

InitLocal ==
  /\ now = 1
  /\ ops = 0
  /\ currentUser = NoUser
  /\ rawData \in {<<HeaderRow>> \o rows : rows \in RowsUpTo(MaxRows)}
  /\ storage \in {NoSaved} \cup {Saved(list) : list \in SavedCollections}
  /\ orders = IF storage.saved THEN JSONparse(storage.text) ELSE <<>>
  /\ camera = NoCamera
  /\ isOnline = TRUE
  /\ loading = FALSE
  /\ completionTarget = NoOrder
  /\ sub = IdleSub
  /\ alert = ""
  /\ db = <<>>
  /\ channel = <<>>
  /\ writes = {}
  /\ batch = NoBatch
  /\ InitCmpIdle

NextLocal ==
  \/ handleLogin
  \/ handleMappingConfirmLocal
  \/ handleReceiveLocal
  \/ openCompletionModalLocal
  \/ closeCompletionModalClicked
  \/ submitCompletionLocal
  \/ confirmTransferLocal
  \/ DismissAlert
  \/ Tick

SpecLocal == InitLocal /\ [][NextLocal]_vars

\* C30: the list stored under the key is the in-memory collection: as
\* loaded at startup, and after every import and every order update.
C30_StoredIsInMemory ==
  IF storage.saved THEN JSONparse(storage.text) = orders ELSE orders = <<>>

\* C30 witness: the worker has completed both orders with a photo; the
\* second setItem has thrown: the order is COMPLETED in memory and still
\* RECEIVED, without a photo, in the stored list.
C30_Witness ==
  /\ storage.saved
  /\ Len(orders) = 2
  /\ \A i \in DOMAIN orders :
       orders[i].status = "COMPLETED" /\ orders[i].completionPhoto # NoPhoto
  /\ \E i \in DOMAIN orders :
       /\ JSONparse(storage.text)[i].status = "RECEIVED"
       /\ JSONparse(storage.text)[i].completionPhoto = NoPhoto

(***************************************************************************)
(* All the local operations in one session: the worker's and the           *)
(* administrator's operations of Spec, and the batch reassignment of the   *)
(* orders selected with the select-all box.                                *)
(***************************************************************************)
\* handleSelectAll (checked): every listed order is selected.
handleSelectAll ==
  /\ Running
  /\ currentUser.role = "ADMIN"
  /\ completionTarget = NoOrder
  /\ batch.pc = "idle"
  /\ orders # <<>>
  /\ ops < MaxOps
  /\ ops' = ops + 1
  /\ batch' = [NoBatch EXCEPT !.pc = "selected",
                              !.ids = {orders[i].id : i \in DOMAIN orders}]
  /\ UNCHANGED <<cmpVars, pageVars, camera, now, currentUser, orders,
                 isOnline, loading, completionTarget, sub, alert, db, channel,
                 writes>>

InitOps == InitSys /\ InitCmpIdle

NextOps ==
  \/ FetchOrdersResolved
  \/ OnRemoteEvent
  \/ UpdateResolved
  \/ handleLogin
  \/ DismissAlert
  \/ handleReceive
  \/ openCompletionModal
  \/ closeCompletionModalClicked
  \/ submitCompletion
  \/ VerificationReturned
  \/ CompletionApplied
  \/ confirmTransfer
  \/ handleSaveDeadline
  \/ handleSelectAll
  \/ confirmBatchTransfer
  \/ BatchUpdateResolved
  \/ Tick

SpecOps == InitOps /\ [][NextOps]_vars

\* The order a request was built from: the order kept by the dialog for a
\* submission, the order found in the collection for the others.
ReadBy(w) ==
  IF w.origin = "submit" THEN sub.completionTarget ELSE Find(orders, w.id)

\* The entry each operation writes.
EntryActions(origin) ==
  CASE origin = "receive"  -> {"receive"}
    [] origin = "submit"   -> {"complete", "amend"}
    [] origin = "transfer" -> {"transfer"}
    [] origin = "deadline" -> {"deadline"}
    [] origin = "batch"    -> {"batch"}

\* C31: every request a local operation issues (receive, complete or
\* amend, single reassignment, batch reassignment, deadline edit) carries a
\* history that is the history of the order it read followed by exactly
\* one new entry, written by the session for that operation.
C31_Step ==
  \A w \in Issued :
    LET read == HistoryOf(ReadBy(w))
    IN  /\ "history" \in DOMAIN w.updates
        /\ Len(w.updates.history) = Len(read) + 1
        /\ IsPrefix(read, w.updates.history)
        /\ w.updates.history[Len(read) + 1].actor = currentUser.name
        /\ w.updates.history[Len(read) + 1].action \in EntryActions(w.origin)

C31_OneEntryPerPatch == [][C31_Step]_vars

\* C31 witness: the administrator has edited the deadline and then
\* reassigned the order in a batch; the batch request in flight carries
\* the three entries import, deadline, batch.
C31_Witness ==
  /\ batch.pc = "awaiting"
  /\ \E w \in writes :
       /\ w.origin = "batch"
       /\ Len(w.updates.history) = 3
       /\ w.updates.history[2].action = "deadline"
       /\ w.updates.history[3].action = "batch"

(***************************************************************************)
(* The sync layer with everything that feeds the local collection: the     *)
(* load at mount, this client's import (stored remotely, or kept locally   *)
(* when the insert fails), and the INSERT, UPDATE and DELETE events of     *)
(* rows that other clients import, reassign or delete.                     *)
(***************************************************************************)
\* handleFileLoaded: the administrator drops a sheet on the upload page.
handleFileLoaded ==
  /\ Running
  /\ ~loading
  /\ currentUser.role = "ADMIN"
  /\ rawData = <<>>
  /\ rawData' \in {<<HeaderRow>> \o rows : rows \in RowsUpTo(MaxRows)}
  /\ UNCHANGED <<cmpVars, storage, camera, batch, now, ops, currentUser, orders,
                 isOnline, loading, completionTarget, sub, alert, db, channel,
                 writes>>

\* A row is deleted in the table, which publishes the DELETE event.
RemoteDelete ==
  /\ Running
  /\ ops < MaxOps
  /\ ops' = ops + 1
  /\ \E i \in DOMAIN db :
       /\ db' = SelectSeq(db, LAMBDA o : o.id # db[i].id)
       /\ channel' = Append(channel, DeleteEvent(db[i].id))
  /\ UNCHANGED <<cmpVars, pageVars, camera, batch, now, currentUser, orders,
                 isOnline, loading, completionTarget, sub, alert, writes>>

InitSync == InitSys /\ InitCmpIdle

NextSync ==
  \/ FetchOrdersResolved
  \/ handleLogin
  \/ handleFileLoaded
  \/ handleMappingConfirm
  \/ OnRemoteEvent
  \/ RemoteImport
  \/ RemoteTransfer
  \/ RemoteDelete
  \/ DismissAlert

SpecSync == InitSync /\ [][NextSync]_vars

\* C35: the local collection never holds two orders with the same id.
C35_UniqueIds ==
  \A i \in DOMAIN orders, j \in DOMAIN orders :
    orders[i].id = orders[j].id => i = j

\* C35 witness: another client's import was in the table when the load at
\* mount read it, and its INSERT event came after the load: the order is
\* twice in the collection and once in the table.
C35_Witness ==
  /\ ~loading
  /\ channel = <<>>
  /\ Cardinality({i \in DOMAIN orders : orders[i].id = ImportedId}) = 2
  /\ Cardinality({i \in DOMAIN db : db[i].id = ImportedId}) = 1


\* C36: in the local collection, as the local operations make it from the
\* imported orders, a COMPLETED order has receivedAt, completedAt and
\* returnReason set and holds a photo or at least one attachment; and
\* auditStatus is set only on COMPLETED orders, is PASSED only with a
\* photo, and is never FAILED.
C36_CompletedIsWellFormed ==
  \A i \in DOMAIN orders :
    LET o == orders[i]
    IN  /\ o.status = "COMPLETED" =>
             /\ o.receivedAt # 0
             /\ o.completedAt # 0
             /\ o.returnReason # ""
             /\ (o.completionPhoto # NoPhoto \/ o.remarkImages # <<>>)
        /\ o.auditStatus # "" => o.status = "COMPLETED"
        /\ o.auditStatus = "PASSED" => o.completionPhoto # NoPhoto
        /\ o.auditStatus # "FAILED"

\* C36 witness: the receive request failed, the completion request
\* succeeded, and the event of the completed row has replaced the local
\* order: it is COMPLETED, with its proof, and was never received.
C36_Witness ==
  /\ writes = {}
  /\ channel = <<>>
  /\ \E i \in DOMAIN orders :
       /\ orders[i] = Find(db, orders[i].id)
       /\ orders[i].status = "COMPLETED"
       /\ orders[i].receivedAt = 0
       /\ orders[i].completedAt # 0
       /\ orders[i].auditStatus \in {"PASSED", "PENDING"}
       /\ Len(orders[i].history) = 3
       /\ orders[i].history[2].action = "receive"

(***************************************************************************)
(* The import with the push channel delivering: every event published is   *)
(* eventually handed to the realtime handler, and an alert box is          *)
(* eventually dismissed (the handler cannot run while one is open).        *)
(***************************************************************************)
SpecImportFair ==
  /\ InitImport
  /\ [][NextImport]_vars
  /\ WF_vars(OnRemoteEvent)
  /\ WF_vars(DismissAlert)

\* Every order of the table (in this specification: the orders imported
\* with a successful insert) is in the local collection.
StoredAreLocal == \A i \in DOMAIN db : Present(orders, db[i].id)

\* The step of an import whose insert failed.
ImportFellBack == alert = "" /\ alert' = "IMPORT_LOCAL_ONLY"

C37_Fallback ==
  ImportFellBack =>
    LET new == Created(orders, orders')
    IN  /\ orders' = new \o orders
        /\ NamesOf(new) = KeptNames(Slice1(rawData))
        /\ db' = db /\ channel' = channel

FetchSucceeded == loading /\ ~loading' /\ isOnline' /\ orders' = db

\* Another event for the same id is still on its way behind the first.
LaterPending(id) ==
  \E k \in 2 .. Len(channel) : EventId(channel[k]) = id

\* The local record of an id is the record of the table.
Reconciled(id) == Find(orders', id) = Find(db', id)

\* C38 as stated: a successful full load, and the next push event for an
\* id once no request is in flight, make the local record of that id the
\* record of the table.
C38_Step ==
  /\ FetchSucceeded => \A i \in DOMAIN db' : Reconciled(db'[i].id)
  /\ (EventApplied /\ writes = {}) => Reconciled(EventId(Head(channel)))

C38_AmendedStep ==
  /\ FetchSucceeded =>
       /\ \A i \in DOMAIN db' : Reconciled(db'[i].id)
       /\ Len(orders') = Len(db')
  /\ (/\ EventApplied
      /\ Present(orders, EventId(Head(channel)))
      /\ ~LaterPending(EventId(Head(channel)))) =>
       Reconciled(EventId(Head(channel)))

=============================================================================
